---- MODULE Spec2Model ----
(***************************************************************************)
(* A model of n3-core: the graph registry (GraphRoot), the model           *)
(* elaborator (Compile for ast::File / ast::Model / ast::Graph) and the    *)
(* graph elaborator (Graph::attach, Graph::adjust_shapes, ...).            *)
(*                                                                         *)
(* Rust values are modelled as follows.                                    *)
(*   Option<T>            None == <<>>, Some(x) == <<x>>                   *)
(*   enum                 a tuple whose first element is the variant name  *)
(*   struct               a record                                         *)
(*   HashMap / BTreeMap   a function on the set of its keys                *)
(*   Result<T, E>         a record [ok, err, ...]; a panic is the error    *)
(*                        "panic"                                          *)
(***************************************************************************)
EXTENDS Integers, Sequences, FiniteSets, Bags, TLC

\* ------------------------------------------------------------------------
\* Generic helpers
\* ------------------------------------------------------------------------

None == <<>>

Some(x) == <<x>>

IsSome(o) == o # <<>>

Unwrap(o) == o[1]

\* The map m without key k (HashMap::remove).
MapRemove(m, k) == [x \in (DOMAIN m) \ {k} |-> m[x]]

\* The map m with k bound to v (HashMap::insert / BTreeMap::insert).
MapInsert(m, k, v) == [x \in (DOMAIN m) \cup {k} |-> IF x = k THEN v ELSE m[x]]

EmptyMap == [x \in {} |-> x]

\* Ascending enumeration of a finite set of naturals (BTreeMap<u64, _> order).
RECURSIVE SortedNats(_)
SortedNats(S) ==
    IF S = {} THEN <<>>
    ELSE LET m == CHOOSE x \in S : \A y \in S : x <= y
         IN  <<m>> \o SortedNats(S \ {m})

\* ------------------------------------------------------------------------
\* The symbolic algebra (the external symengine crate, spec section 4.1).
\* A polynomial is a set of terms <<monomial, coefficient>>, a monomial a bag
\* of symbols, the coefficient a non-zero integer; an Expression is a
\* fraction <<numerator, denominator>> of polynomials, and two Expressions
\* are equal when they are equal as fractions (ExprEq).
\* ------------------------------------------------------------------------

PolyMonos(p) == {t[1] : t \in p}

PolyCoef(p, m) == IF \E t \in p : t[1] = m THEN (CHOOSE t \in p : t[1] = m)[2] ELSE 0

PolyConst(n) == IF n = 0 THEN {} ELSE {<<EmptyBag, n>>}

PolySym(s) == {<<SetToBag({s}), 1>>}

PolyAdd(p, q) ==
    {<<m, PolyCoef(p, m) + PolyCoef(q, m)>> :
        m \in {x \in PolyMonos(p) \cup PolyMonos(q) : PolyCoef(p, x) + PolyCoef(q, x) # 0}}

PolyNeg(p) == {<<t[1], 0 - t[2]>> : t \in p}

RECURSIVE SumProducts(_)
SumProducts(pairs) ==
    IF pairs = {} THEN 0
    ELSE LET t == CHOOSE x \in pairs : TRUE
         IN  t[1][2] * t[2][2] + SumProducts(pairs \ {t})

PolyMul(p, q) ==
    LET pairs == p \X q
        monos == {t[1][1] (+) t[2][1] : t \in pairs}
        coef(m) == SumProducts({t \in pairs : t[1][1] (+) t[2][1] = m})
    IN  {<<m, coef(m)>> : m \in {x \in monos : coef(x) # 0}}

ExprConst(n) == <<PolyConst(n), PolyConst(1)>>

ExprSym(s) == <<PolySym(s), PolyConst(1)>>

ExprAdd(a, b) == <<PolyAdd(PolyMul(a[1], b[2]), PolyMul(b[1], a[2])), PolyMul(a[2], b[2])>>

ExprSub(a, b) ==
    <<PolyAdd(PolyMul(a[1], b[2]), PolyNeg(PolyMul(b[1], a[2]))), PolyMul(a[2], b[2])>>

ExprMul(a, b) == <<PolyMul(a[1], b[1]), PolyMul(a[2], b[2])>>

ExprDiv(a, b) == <<PolyMul(a[1], b[2]), PolyMul(a[2], b[1])>>

\* Equality of canonical forms: equality as fractions.
ExprEq(a, b) == PolyMul(a[1], b[2]) = PolyMul(b[1], a[2])

ExprIsZero(a) == a[1] = {} /\ a[2] # {}

RECURSIVE ExprPow(_, _)
ExprPow(e, n) == IF n = 0 THEN ExprConst(1) ELSE ExprMul(e, ExprPow(e, n - 1))

\* The monomial m with every symbol bound in the substitution `basic`
\* replaced by its binding.
RECURSIVE MonoSubst(_, _, _)
MonoSubst(m, syms, basic) ==
    IF syms = {} THEN ExprConst(1)
    ELSE LET s == CHOOSE x \in syms : TRUE
             f == IF s \in DOMAIN basic THEN basic[s] ELSE ExprSym(s)
         IN  ExprMul(ExprPow(f, m[s]), MonoSubst(m, syms \ {s}, basic))

RECURSIVE PolySubst(_, _)
PolySubst(p, basic) ==
    IF p = {} THEN ExprConst(0)
    ELSE LET t == CHOOSE x \in p : TRUE
         IN  ExprAdd(ExprMul(ExprConst(t[2]), MonoSubst(t[1], DOMAIN t[1], basic)),
                     PolySubst(p \ {t}, basic))

\* One simultaneous substitution of the bound symbols (ExpressionMap::eval_once).
ExprSubst(e, basic) == ExprDiv(PolySubst(e[1], basic), PolySubst(e[2], basic))

\* ------------------------------------------------------------------------
\* Values and variables (src/graphs/variable.rs)
\* ------------------------------------------------------------------------

\* ValueType::new(value, is_model); a Value is <<tag, payload>>.
ValueTypeNew(value, is_model) ==
    IF is_model THEN "Model"
    ELSE IF value = None THEN "Required"
    ELSE Unwrap(value)[1]

\* A Variable::update that takes a value of any type.
VariableUpdateAnyType(var, value, ty) ==
    [ok |-> TRUE, err |-> "", var |-> [var EXCEPT !.value = Some(value), !.ty = ty]]

\* Variable::update
VariableUpdate(var, value, ty) ==
    IF var.ty = ty \/ var.ty = "Required"
    THEN [ok |-> TRUE, err |-> "", var |-> [var EXCEPT !.value = Some(value), !.ty = ty]]
    ELSE [ok |-> FALSE, err |-> "DifferentVariableType", var |-> var]

\* An unwrap_uint that finds no UInt value.
UnwrapUintNone(var) == None

\* Variable::unwrap_uint
UnwrapUint(var) ==
    IF IsSome(var.value) /\ Unwrap(var.value)[1] = "UInt"
    THEN Some(Unwrap(var.value)[2])
    ELSE None

\* Variable::expect_or_default
ExpectOrDefault(var, ty) ==
    IF var.ty = ty THEN [ok |-> TRUE, err |-> "", var |-> var]
    ELSE IF var.ty = "Required" THEN [ok |-> TRUE, err |-> "", var |-> [var EXCEPT !.ty = ty]]
    ELSE [ok |-> FALSE, err |-> "DifferentVariableType", var |-> var]

\* ------------------------------------------------------------------------
\* Dimensions and shapes (src/graphs/shape.rs)
\* ------------------------------------------------------------------------

KeyVariable(name) == <<"Variable", name, FALSE>>

KeyPlaceholder(name, is_input) == <<"Placeholder", name, is_input>>

DimOfKey(key) == <<"Key", key>>

DimOfExpr(e) == <<"Expr", e>>

IsPlaceholderDim(d) == d[1] = "Key" /\ d[2][1] = "Placeholder"

\* The name try_archive_placeholders gives a placeholder: "_node_{node}_{ph}".
ArchiveName(node, ph) == "_node_" \o ToString(node) \o "_" \o ph

\* heck's to_camel_case on the names of the model: words are split at spaces
\* and underscores, each word is capitalised and the words are joined. A name
\* that is one capitalised word (N, Ic, Oc) is its own camel case; an archived
\* name keeps its own, distinct symbol.
CamelCase(name) ==
    CASE name = "weight" -> "Weight"
      [] name = "output size" -> "OutputSize"
      [] name = "kernel size" -> "KernelSize"
      [] name = "stride" -> "Stride"
      [] name = "number of channels" -> "NumberOfChannels"
      [] OTHER -> name

\* ExpressionMapKey::to_string: the is_input bit is not part of the symbol.
DimKeyToString(key) ==
    IF key[1] = "Variable" THEN "var_" \o CamelCase(key[2]) ELSE "ph_" \o CamelCase(key[2])

\* DimKey::to_expr
DimKeyToExpr(key) == ExprSym(DimKeyToString(key))

\* Dim::to_expr
DimToExpr(d) == IF d[1] = "Key" THEN DimKeyToExpr(d[2]) ELSE d[2]

\* #[derive(PartialEq)] for Dim
DimEq(a, b) ==
    /\ a[1] = b[1]
    /\ IF a[1] = "Key" THEN a[2] = b[2] ELSE ExprEq(a[2], b[2])

\* ExpressionMap<DimKey>: the table keyed by DimKey and the substitution
\* keyed by symbol, written together by insert.
KeysNew == [table |-> EmptyMap, basic |-> EmptyMap]

KeysInsert(keys, key, e) ==
    [table |-> MapInsert(keys.table, key, e),
     basic |-> MapInsert(keys.basic, DimKeyToString(key), e)]

KeysContains(keys, key) == key \in DOMAIN keys.table

KeysEvalOnce(keys, e) == ExprSubst(e, keys.basic)

ShapeDynamic == <<"Dynamic">>

ShapeFixed(dims) == <<"Fixed", dims>>

ShapesDynamic == <<"Dynamic">>

ShapesFixed(m) == <<"Fixed", m>>

RECURSIVE DimsProduct(_)
DimsProduct(dims) ==
    IF dims = <<>> THEN ExprConst(1)
    ELSE ExprMul(DimsProduct(SubSeq(dims, 1, Len(dims) - 1)), DimToExpr(dims[Len(dims)]))

\* Shape::product
ShapeProduct(shape) ==
    IF shape[1] = "Dynamic" THEN shape
    ELSE ShapeFixed(<<DimOfExpr(DimsProduct(shape[2]))>>)

\* Shapes::product
ShapesProduct(shapes) ==
    IF shapes[1] = "Dynamic" THEN shapes
    ELSE ShapesFixed([a \in DOMAIN shapes[2] |-> ShapeProduct(shapes[2][a])])

\* Shape::validate_rank
ValidateRank(shape, last) ==
    IF shape[1] = "Fixed" /\ last[1] = "Fixed"
    THEN IF Len(shape[2]) = Len(last[2])
         THEN [ok |-> TRUE, err |-> "", val |-> TRUE]
         ELSE [ok |-> FALSE, err |-> "DifferentRank", val |-> FALSE]
    ELSE [ok |-> TRUE, err |-> "", val |-> FALSE]

\* The fold of Shapes::validate_args_rank over the paired arguments:
\* fold(Ok(true), |a, b| Ok(a? == b?)).
RECURSIVE ValidateFold(_, _, _, _)
ValidateFold(acc, args, m, lastm) ==
    IF args = <<>> THEN acc
    ELSE LET b == ValidateRank(m[args[1]], lastm[args[1]])
             step == IF ~acc.ok THEN acc
                     ELSE IF ~b.ok THEN b
                     ELSE [ok |-> TRUE, err |-> "", val |-> (acc.val = b.val)]
         IN  ValidateFold(step, Tail(args), m, lastm)

\* Shapes::validate_args_rank
ValidateArgsRank(shapes, last) ==
    IF shapes[1] = "Fixed" /\ last[1] = "Fixed"
    THEN IF DOMAIN shapes[2] = DOMAIN last[2]
         THEN ValidateFold([ok |-> TRUE, err |-> "", val |-> TRUE],
                           SortedNats(DOMAIN shapes[2]), shapes[2], last[2])
         ELSE [ok |-> FALSE, err |-> "DifferentArgs", val |-> FALSE]
    ELSE [ok |-> TRUE, err |-> "", val |-> FALSE]

\* Shapes::index_args
IndexArgs(shapes, args) ==
    IF shapes[1] = "Dynamic" THEN ShapesDynamic
    ELSE ShapesFixed([a \in (DOMAIN shapes[2]) \cap args |-> shapes[2][a]])

\* append that keeps the ArgIndexes of the appended bundle, shifted by the
\* bias, where the code numbers them anew.
ShapesAppendKeyed(a, b) ==
    IF a[1] = "Fixed" /\ b[1] = "Fixed"
    THEN LET bias == Cardinality(DOMAIN a[2])
             added == {bias + k : k \in DOMAIN b[2]}
         IN  ShapesFixed([k \in (DOMAIN a[2]) \cup added |->
                            IF k \in added THEN b[2][k - bias] ELSE a[2][k]])
    ELSE ShapesDynamic

\* Shapes::append
ShapesAppend(a, b) ==
    IF a[1] = "Fixed" /\ b[1] = "Fixed"
    THEN LET bias == Cardinality(DOMAIN a[2])
             others == SortedNats(DOMAIN b[2])
             added == {bias + (i - 1) : i \in 1 .. Len(others)}
         IN  ShapesFixed([k \in (DOMAIN a[2]) \cup added |->
                            IF k \in added THEN b[2][others[k - bias + 1]] ELSE a[2][k]])
    ELSE ShapesDynamic

\* One dim of try_archive_placeholders: a placeholder is renamed.
ArchiveDim(d, node) ==
    IF IsPlaceholderDim(d)
    THEN DimOfKey(KeyPlaceholder(ArchiveName(node, d[2][2]), d[2][3]))
    ELSE d

ArchiveShape(shape, node) ==
    IF shape[1] = "Fixed"
    THEN ShapeFixed([i \in 1 .. Len(shape[2]) |-> ArchiveDim(shape[2][i], node)])
    ELSE shape

\* Shapes::try_archive_placeholders, run to its end: the renamed bundle.
ArchivePlaceholders(shapes, node) ==
    IF shapes[1] = "Dynamic" THEN shapes
    ELSE ShapesFixed([a \in DOMAIN shapes[2] |-> ArchiveShape(shapes[2][a], node)])

RECURSIVE ArchivedOfDims(_, _)
ArchivedOfDims(dims, node) ==
    IF dims = <<>> THEN <<>>
    ELSE (IF IsPlaceholderDim(dims[1]) THEN <<ArchiveName(node, dims[1][2][2])>> ELSE <<>>)
         \o ArchivedOfDims(Tail(dims), node)

RECURSIVE ArchivedOfArgs(_, _, _)
ArchivedOfArgs(args, m, node) ==
    IF args = <<>> THEN <<>>
    ELSE (IF m[args[1]][1] = "Fixed" THEN ArchivedOfDims(m[args[1]][2], node) ELSE <<>>)
         \o ArchivedOfArgs(Tail(args), m, node)

\* The names try_archive_placeholders yields, in order.
ArchivedNames(shapes, node) ==
    IF shapes[1] = "Dynamic" THEN <<>>
    ELSE ArchivedOfArgs(SortedNats(DOMAIN shapes[2]), shapes[2], node)

\* ------------------------------------------------------------------------
\* Node identities (src/graphs/id.rs); a GraphId is <<node, pass, repeat>>.
\* ------------------------------------------------------------------------

NewInput == <<0, 0, 0>>

NewFirst == <<1, 0, 0>>

IsInput(id) == id = NewInput

IsFirst(id) == id = NewFirst

\* A validate that accepts every id.
ValidateAny(id, last) == TRUE

\* GraphId::validate
Validate(id, last) ==
    IF id[1] = last[1]
    THEN IF id[2] = last[2] THEN id[3] = last[3] + 1 ELSE id[2] = last[2] + 1
    ELSE id[1] = last[1] + 1

\* #[derive(PartialOrd, Ord)]: the lexicographic order of BTreeMap<GraphId, _>.
IdLess(a, b) ==
    \/ a[1] < b[1]
    \/ a[1] = b[1] /\ a[2] < b[2]
    \/ a[1] = b[1] /\ a[2] = b[2] /\ a[3] < b[3]

\* BTreeMap::last_key_value / first_key_value on a non-empty map.
LastId(nodes) == CHOOSE a \in DOMAIN nodes : \A b \in DOMAIN nodes : a = b \/ IdLess(b, a)

FirstId(nodes) == CHOOSE a \in DOMAIN nodes : \A b \in DOMAIN nodes : a = b \/ IdLess(a, b)

RECURSIVE SortedIds(_)
SortedIds(S) ==
    IF S = {} THEN <<>>
    ELSE LET m == CHOOSE a \in S : \A b \in S : a = b \/ IdLess(a, b)
         IN  <<m>> \o SortedIds(S \ {m})

\* GraphIdArg::with_id
WithId(id) == [id |-> id, arg |-> None]

\* ------------------------------------------------------------------------
\* Graph (src/graphs/graph.rs)
\* ------------------------------------------------------------------------

Ok(g) == [ok |-> TRUE, err |-> "", g |-> g]

Err(e, g) == [ok |-> FALSE, err |-> e, g |-> g]

\* unwrap() on None, unreachable!() and unimplemented!().
Panic(g) == [ok |-> FALSE, err |-> "panic", g |-> g]

\* A state test that lets every state coin a placeholder.
IsNewVarAvailableAlways(state) == TRUE

\* ShapeState::is_new_var_available
IsNewVarAvailable(state) ==
    CASE state = "FixedWeak" -> FALSE
      [] state = "FixedFull" -> TRUE
      [] state = "RequiredWeak" -> TRUE
      [] state = "RequiredFull" -> FALSE
      [] state = "Transform" -> TRUE

\* Graph::new; ShapeState::default() is Fixed(Weak).
GraphNew(is_extern) ==
    [variables |-> EmptyMap, variable_aliases |-> EmptyMap, keys |-> KeysNew,
     graphs |-> EmptyMap, nodes |-> EmptyMap, shape_state |-> "FixedWeak",
     is_extern |-> is_extern]

\* Graph::new_child
NewChild(parent) == [GraphNew(FALSE) EXCEPT !.graphs = parent.graphs]

\* Node::default
NodeDefault == [name |-> "", graph |-> None, inputs |-> <<>>, shapes |-> ShapesDynamic]

\* Graph::eval_dim_for_output
EvalDimForOutput(g, d) ==
    IF IsPlaceholderDim(d)
    THEN DimOfExpr(KeysEvalOnce(g.keys, DimKeyToExpr(d[2])))
    ELSE d

\* get_shapes() reaches unreachable!() on a Dynamic bundle or shape.
NodeShapesFixed(node) ==
    /\ node.shapes[1] = "Fixed"
    /\ \A a \in DOMAIN node.shapes[2] : node.shapes[2][a][1] = "Fixed"

ShapesDefined(g) == \A id \in DOMAIN g.nodes : NodeShapesFixed(g.nodes[id])

\* Graph::get_shapes, where it is defined: per node, the shapes in ArgIndex
\* order, each a sequence of dims.
GetShapes(g) ==
    [id \in DOMAIN g.nodes |->
        LET m == g.nodes[id].shapes[2]
            args == SortedNats(DOMAIN m)
        IN  [i \in 1 .. Len(args) |->
                [k \in 1 .. Len(m[args[i]][2]) |-> EvalDimForOutput(g, m[args[i]][2][k])]]]

\* Graph::update_variable
UpdateVariable(g, name, alias, value, ty) ==
    LET target == IF IsSome(name) THEN name
                  ELSE IF IsSome(alias)
                       THEN Some(IF Unwrap(alias) \in DOMAIN g.variable_aliases
                                 THEN g.variable_aliases[Unwrap(alias)]
                                 ELSE Unwrap(alias))
                       ELSE None
        registered == IF IsSome(name) THEN alias ELSE None
    IN  IF target = None THEN Panic(g)
        ELSE IF Unwrap(target) \notin DOMAIN g.variables THEN Err("NoSuchVariable", g)
        ELSE LET n == Unwrap(target)
                 u == VariableUpdate(g.variables[n], value, ty)
                 uint == UnwrapUint(u.var)
             IN  IF ~u.ok THEN Err(u.err, g)
                 ELSE Ok([g EXCEPT
                        !.variables = MapInsert(g.variables, n, u.var),
                        !.variable_aliases =
                            IF IsSome(registered)
                            THEN MapInsert(g.variable_aliases, Unwrap(registered), n)
                            ELSE g.variable_aliases,
                        !.keys = IF IsSome(uint)
                                 THEN KeysInsert(g.keys, KeyVariable(n), ExprConst(Unwrap(uint)))
                                 ELSE g.keys])

\* Graph::add_variable
AddVariable(g, alias, variable) ==
    LET name == variable.description
        uint == UnwrapUint(variable)
        keyed == IF IsSome(uint)
                 THEN [g EXCEPT !.keys = KeysInsert(g.keys, KeyVariable(name), ExprConst(Unwrap(uint)))]
                 ELSE g
    IN  IF name \in DOMAIN g.variables
        THEN IF IsSome(variable.value)
             THEN UpdateVariable(keyed, Some(name), alias, Unwrap(variable.value), variable.ty)
             ELSE Ok(keyed)
        ELSE Ok([keyed EXCEPT
                    !.variable_aliases = IF IsSome(alias)
                                         THEN MapInsert(g.variable_aliases, Unwrap(alias), name)
                                         ELSE g.variable_aliases,
                    !.variables = MapInsert(g.variables, name, variable)])

\* Graph::add_graph
AddGraph(g, name, graph) == [g EXCEPT !.graphs = MapInsert(g.graphs, name, graph)]

\* Graph::eval_dim_with_keys, Graph::eval_dim
EvalDim(g, d) ==
    IF IsPlaceholderDim(d) /\ ~d[2][3] THEN d
    ELSE DimOfExpr(KeysEvalOnce(g.keys, DimToExpr(d)))

\* update_dim, the test of a placeholder that has a binding: the binding is
\* neither the placeholder's own symbol nor the ground.
UpdateDimUntested(g, key, ground) == FALSE

UpdateDimConflict(g, key, ground) ==
    /\ KeysContains(g.keys, key)
    /\ ~ExprEq(g.keys.table[key], DimKeyToExpr(key))
    /\ ~ExprEq(g.keys.table[key], DimToExpr(ground))

\* An update_dim that binds a placeholder to any other placeholder.
UpdateDimBindAny(g, key, ground) ==
    IF IsPlaceholderDim(ground)
    THEN IF key[2] = ground[2][2]
         THEN Ok(g) @@ [val |-> ground]
         ELSE LET e == DimKeyToExpr(KeyPlaceholder(ground[2][2], key[3]))
              IN  Ok([g EXCEPT !.keys = KeysInsert(g.keys, key, e)]) @@ [val |-> DimOfExpr(e)]
    ELSE LET e == DimToExpr(ground)
         IN  Ok([g EXCEPT !.keys = KeysInsert(g.keys, key, e)]) @@ [val |-> DimOfExpr(e)]

\* update_dim, the match on the ground once the test has passed.
UpdateDimBind(g, key, ground) ==
    IF IsPlaceholderDim(ground)
    THEN IF key[2] = ground[2][2]
         THEN Ok(g) @@ [val |-> ground]
         ELSE IF key[3] /\ ground[2][3]
         THEN LET e == DimKeyToExpr(KeyPlaceholder(ground[2][2], key[3]))
              IN  Ok([g EXCEPT !.keys = KeysInsert(g.keys, key, e)]) @@ [val |-> DimOfExpr(e)]
         ELSE Err("CannotEstimateShape", g) @@ [val |-> DimOfKey(key)]
    ELSE LET e == DimToExpr(ground)
         IN  Ok([g EXCEPT !.keys = KeysInsert(g.keys, key, e)]) @@ [val |-> DimOfExpr(e)]

\* update_dim of a dim that is not a placeholder: both sides are evaluated.
UpdateDimEvaluated(g, dim, ground) ==
    IF DimEq(EvalDim(g, dim), EvalDim(g, ground))
    THEN Ok(g) @@ [val |-> ground]
    ELSE Err("DifferentDimension", g) @@ [val |-> dim]

\* An update_dim that binds a placeholder whatever it is bound to.
UpdateDimRebind(g, dim, ground) ==
    IF IsPlaceholderDim(dim) THEN UpdateDimBind(g, dim[2], ground)
    ELSE UpdateDimEvaluated(g, dim, ground)

\* Graph::update_dim; val is the returned Dim.
UpdateDim(g, dim, ground) ==
    IF IsPlaceholderDim(dim)
    THEN IF UpdateDimConflict(g, dim[2], ground)
         THEN Err("DifferentDimension", g) @@ [val |-> dim]
         ELSE UpdateDimBind(g, dim[2], ground)
    ELSE UpdateDimEvaluated(g, dim, ground)

\* update_dim over the zipped dims of one argument, in axis order, stopping
\* at the first error; val collects the returned dims.
RECURSIVE UpdateDims(_, _, _, _)

UpdateDimsNext(r, dims, grounds, acc) ==
    IF ~r.ok THEN [r EXCEPT !.val = acc]
    ELSE UpdateDims(r.g, Tail(dims), Tail(grounds), Append(acc, r.val))

UpdateDims(g, dims, grounds, acc) ==
    IF dims = <<>> \/ grounds = <<>> THEN Ok(g) @@ [val |-> acc]
    ELSE UpdateDimsNext(UpdateDim(g, dims[1], grounds[1]), dims, grounds, acc)

\* Graph::find_var; flag is is_new_var_created.
FindVar(g, var, flag) ==
    IF KeysContains(g.keys, KeyPlaceholder(var, TRUE))
    THEN Ok(g) @@ [val |-> DimOfKey(KeyPlaceholder(var, TRUE)), flag |-> flag]
    ELSE IF KeysContains(g.keys, KeyPlaceholder(var, FALSE))
    THEN Ok(g) @@ [val |-> DimOfKey(KeyPlaceholder(var, FALSE)), flag |-> flag]
    ELSE LET v == IF var \in DOMAIN g.variable_aliases THEN g.variable_aliases[var] ELSE var
         IN  IF v \in DOMAIN g.variables
             THEN LET e == ExpectOrDefault(g.variables[v], "UInt")
                  IN  IF ~e.ok THEN Err(e.err, g) @@ [val |-> None, flag |-> flag]
                      ELSE Ok([g EXCEPT !.variables = MapInsert(g.variables, v, e.var)])
                             @@ [val |-> DimOfKey(KeyVariable(v)), flag |-> flag]
             ELSE IF g.nodes = EmptyMap THEN Panic(g) @@ [val |-> None, flag |-> flag]
             ELSE IF IsNewVarAvailable(g.shape_state)
             THEN LET key == KeyPlaceholder(v, LastId(g.nodes)[1] = 0)
                  IN  Ok([g EXCEPT !.keys = KeysInsert(g.keys, key, DimKeyToExpr(key))])
                        @@ [val |-> DimOfKey(key), flag |-> TRUE]
             ELSE Err("FullShapeRequired", g) @@ [val |-> None, flag |-> flag]

\* convert_dim of `lhs op rhs` once both sides are converted: l and r are
\* the two results.
ConvertOp(l, r, op) ==
    IF ~r.ok THEN r
    ELSE CASE op = "Add" -> [r EXCEPT !.val = DimOfExpr(ExprAdd(DimToExpr(l.val), DimToExpr(r.val)))]
           [] op = "Sub" -> [r EXCEPT !.val = DimOfExpr(ExprSub(DimToExpr(l.val), DimToExpr(r.val)))]
           [] op = "Mul" -> [r EXCEPT !.val = DimOfExpr(ExprMul(DimToExpr(l.val), DimToExpr(r.val)))]
           [] op = "Div" ->
                 LET ev == EvalDim(r.g, r.val)
                 IN  IF ev[1] = "Expr" /\ ExprIsZero(ev[2])
                     THEN (IF r.g.nodes = EmptyMap THEN Panic(r.g) ELSE Err("DivideByZero", r.g))
                          @@ [val |-> None, flag |-> r.flag]
                     ELSE [r EXCEPT !.val = DimOfExpr(ExprDiv(DimToExpr(l.val), DimToExpr(r.val)))]

\* Graph::convert_dim; an ast::Dim is <<"Fixed", n>>, <<"Semantic", name>> or
\* <<"Expr", lhs, rhs, op>>.
RECURSIVE ConvertDim(_, _, _)

ConvertRhs(l, d) ==
    IF ~l.ok THEN l ELSE ConvertOp(l, ConvertDim(l.g, d[3], l.flag), d[4])

ConvertDim(g, d, flag) ==
    CASE d[1] = "Fixed" -> Ok(g) @@ [val |-> DimOfExpr(ExprConst(d[2])), flag |-> flag]
      [] d[1] = "Semantic" -> FindVar(g, d[2], flag)
      [] d[1] = "Expr" -> ConvertRhs(ConvertDim(g, d[2], flag), d)

\* The dims of one declared shape, converted in order (adjust_shapes, the
\* inner map over shape.0).
RECURSIVE ConvertDims(_, _, _, _)

ConvertDimsNext(r, dims, acc) ==
    IF ~r.ok THEN r ELSE ConvertDims(r.g, Tail(dims), r.flag, Append(acc, r.val))

ConvertDims(g, dims, flag, acc) ==
    IF dims = <<>> THEN Ok(g) @@ [val |-> acc, flag |-> flag]
    ELSE ConvertDimsNext(ConvertDim(g, dims[1], flag), dims, acc)

\* The declared shapes, converted in ascending ArgIndex order (adjust_shapes,
\* the outer map over shapes.0 enumerated); idx is the position.
RECURSIVE ConvertShapes(_, _, _, _, _, _)

ConvertShapesNext(r, ast, args, idx, acc) ==
    IF ~r.ok THEN r
    ELSE ConvertShapes(r.g, ast, Tail(args), idx + 1, r.flag,
                       MapInsert(acc, args[1], ShapeFixed(r.val)))

\* A conversion that takes the declared arguments whatever their ArgIndex.
ConvertShapesAnyArg(g, ast, args, idx, flag, acc) ==
    IF args = <<>> THEN Ok(g) @@ [val |-> acc, flag |-> flag]
    ELSE ConvertShapesNext(ConvertDims(g, ast[args[1]], flag, <<>>), ast, args, idx, acc)

ConvertShapes(g, ast, args, idx, flag, acc) ==
    IF args = <<>> THEN Ok(g) @@ [val |-> acc, flag |-> flag]
    ELSE IF idx # args[1] THEN Err("UnvalidNodeArg", g) @@ [val |-> acc, flag |-> flag]
    ELSE ConvertShapesNext(ConvertDims(g, ast[args[1]], flag, <<>>), ast, args, idx, acc)

\* update_dim over the zipped arguments of two bundles (the loop of
\* adjust_shapes and of apply_shapes_as_input); val maps each argument to the
\* returned dims. unwrap_dims on a Dynamic shape is unreachable!().
RECURSIVE UpdateShapes(_, _, _, _, _)

UpdateShapesNext(r, args, expected, grounds, acc) ==
    IF ~r.ok THEN r
    ELSE UpdateShapes(r.g, Tail(args), expected, grounds,
                      MapInsert(acc, args[1], ShapeFixed(r.val)))

UpdateShapes(g, args, expected, grounds, acc) ==
    IF args = <<>> THEN Ok(g) @@ [val |-> acc]
    ELSE IF expected[args[1]][1] # "Fixed" \/ grounds[args[1]][1] # "Fixed"
    THEN Panic(g) @@ [val |-> acc]
    ELSE UpdateShapesNext(UpdateDims(g, expected[args[1]][2], grounds[args[1]][2], <<>>),
                          args, expected, grounds, acc)

\* set_last_shapes storing the product of the shapes.
SetLastShapesProduct(g, shapes) ==
    [g EXCEPT !.nodes[LastId(g.nodes)].shapes = ShapesProduct(shapes)]

\* Graph::set_last_shapes
SetLastShapes(g, shapes) == [g EXCEPT !.nodes[LastId(g.nodes)].shapes = shapes]

\* adjust_shapes, the end: the declared shapes are stored on the last node
\* and the state becomes Fixed; unified is the result of the update_dim loop.
AdjustStore(conv, unified) ==
    IF ~unified.ok THEN Err(unified.err, unified.g)
    ELSE Ok([SetLastShapes(unified.g, ShapesFixed(conv.val)) EXCEPT
                !.shape_state = IF conv.flag THEN "FixedWeak" ELSE "FixedFull"])

\* An adjust_shapes that leaves the state Fixed(Full) whenever nothing is
\* unified.
AdjustUnifyFull(conv, valid, shapes, last_shapes) ==
    IF ~valid.ok THEN Err(valid.err, conv.g)
    ELSE IF valid.val
    THEN AdjustStore(conv, UpdateShapes(conv.g, SortedNats(DOMAIN shapes[2]),
                                        last_shapes[2], shapes[2], EmptyMap))
    ELSE Ok([SetLastShapes(conv.g, ShapesFixed(conv.val)) EXCEPT !.shape_state = "FixedFull"])

\* adjust_shapes, the match on validate_args_rank.
AdjustUnify(conv, valid, shapes, last_shapes) ==
    IF ~valid.ok THEN Err(valid.err, conv.g)
    ELSE IF valid.val
    THEN AdjustStore(conv, UpdateShapes(conv.g, SortedNats(DOMAIN shapes[2]),
                                        last_shapes[2], shapes[2], EmptyMap))
    ELSE Ok([SetLastShapes(conv.g, ShapesFixed(conv.val)) EXCEPT
                !.shape_state = IF conv.flag THEN "FixedWeak" ELSE "FixedFull"])

\* adjust_shapes, after the conversion: in Transform state both sides are
\* replaced by their products before they are compared.
AdjustCompare(conv, shapes, last_shapes) ==
    AdjustUnify(conv, ValidateArgsRank(shapes, last_shapes), shapes, last_shapes)

\* An adjust_shapes that compares the shapes dim by dim in every state.
AdjustConvertedFlat(conv) ==
    IF ~conv.ok THEN Err(conv.err, conv.g)
    ELSE AdjustCompare(conv, ShapesFixed(conv.val), conv.g.nodes[LastId(conv.g.nodes)].shapes)

AdjustConverted(conv) ==
    IF ~conv.ok THEN Err(conv.err, conv.g)
    ELSE IF conv.g.shape_state = "Transform"
    THEN AdjustCompare(conv, ShapesProduct(ShapesFixed(conv.val)),
                       ShapesProduct(conv.g.nodes[LastId(conv.g.nodes)].shapes))
    ELSE AdjustCompare(conv, ShapesFixed(conv.val), conv.g.nodes[LastId(conv.g.nodes)].shapes)

\* Graph::adjust_shapes; an ast::Shapes is a map from ArgIndex to the
\* sequence of declared dims.
AdjustShapes(g, ast) ==
    IF g.nodes = EmptyMap THEN Panic(g)
    ELSE AdjustConverted(ConvertShapes(g, ast, SortedNats(DOMAIN ast), 0, FALSE, EmptyMap))

\* finalize accepting Fixed(Weak) as well.
FinalizeAnyFixed(g) ==
    IF g.shape_state \in {"FixedFull", "FixedWeak"} THEN Ok([g EXCEPT !.graphs = EmptyMap])
    ELSE Err("FullShapeRequired", [g EXCEPT !.graphs = EmptyMap])

\* Graph::finalize
Finalize(g) ==
    IF g.shape_state = "FixedFull" THEN Ok([g EXCEPT !.graphs = EmptyMap])
    ELSE IF g.nodes = EmptyMap THEN Panic([g EXCEPT !.graphs = EmptyMap])
    ELSE Err("FullShapeRequired", [g EXCEPT !.graphs = EmptyMap])

\* A search that returns the first node of that number.
GetFirstSpecificNodeId(g, node) ==
    LET cands == {id \in DOMAIN g.nodes : id[1] = node}
    IN  IF cands = {} THEN None
        ELSE Some(CHOOSE a \in cands : \A b \in cands : a = b \/ IdLess(a, b))

\* Graph::get_last_specific_node_id
GetLastSpecificNodeId(g, node) ==
    LET cands == {id \in DOMAIN g.nodes : id[1] = node}
    IN  IF cands = {} THEN None
        ELSE Some(CHOOSE a \in cands : \A b \in cands : a = b \/ IdLess(b, a))

RECURSIVE AppendInputs(_, _, _)
AppendInputs(g, inputs, acc) ==
    IF inputs = <<>> THEN acc
    ELSE AppendInputs(g, Tail(inputs),
            ShapesAppend(acc, IndexArgs(g.nodes[inputs[1].id].shapes, {Unwrap(inputs[1].arg)})))

\* Graph::get_last_shapes on a graph that has nodes; inputs is an Option.
GetLastShapes(g, inputs) ==
    IF inputs = None \/ inputs = Some(<<>>) THEN g.nodes[LastId(g.nodes)].shapes
    ELSE IF Len(Unwrap(inputs)) = 1
    THEN IF IsSome(Unwrap(inputs)[1].arg)
         THEN IndexArgs(g.nodes[Unwrap(inputs)[1].id].shapes, {Unwrap(Unwrap(inputs)[1].arg)})
         ELSE g.nodes[Unwrap(inputs)[1].id].shapes
    ELSE AppendInputs(g, Unwrap(inputs), ShapesFixed(EmptyMap))

\* find_var for each archived placeholder name (set_last_shapes_from_child).
RECURSIVE FindVars(_, _)

FindVarsNext(r, names) ==
    IF ~r.ok THEN Err(r.err, r.g) ELSE FindVars(r.g, Tail(names))

FindVars(g, names) ==
    IF names = <<>> THEN Ok(g) ELSE FindVarsNext(FindVar(g, names[1], FALSE), names)

\* set_last_shapes_from_child once the archived names are found.
SetLastShapesArchived(r, renamed) ==
    IF ~r.ok THEN r @@ [val |-> renamed]
    ELSE Ok(SetLastShapes(r.g, renamed)) @@ [val |-> renamed]

\* Graph::set_last_shapes_from_child
SetLastShapesFromChild(g, shapes, id) ==
    IF shapes[1] = "Dynamic" THEN Err("FullShapeRequired", g) @@ [val |-> shapes]
    ELSE SetLastShapesArchived(FindVars(g, ArchivedNames(shapes, id[1])),
                               ArchivePlaceholders(shapes, id[1]))

\* eval_dim over the last shapes of the target (apply_shapes_as_input).
EvalShapes(target, shapes) ==
    [a \in DOMAIN shapes |->
        ShapeFixed([i \in 1 .. Len(shapes[a][2]) |-> EvalDim(target, shapes[a][2][i])])]

\* The results of apply_shapes_as_input: g is self, target the sub-graph,
\* val the shapes of the new node.
ApplyOk(g, target, val) == [ok |-> TRUE, err |-> "", g |-> g, target |-> target, val |-> val]

ApplyErr(e, g, target) ==
    [ok |-> FALSE, err |-> e, g |-> g, target |-> target, val |-> ShapesDynamic]

\* apply_shapes_as_input, the shapes of the node once the input is unified:
\* the last shapes of the target, evaluated, or the unified input where the
\* target's are Dynamic; unwrap_dims on a Dynamic shape is unreachable!().
ApplyOutput(g, unified, out, id) ==
    IF out[1] = "Dynamic"
    THEN ApplyOk(g, unified.g, ArchivePlaceholders(ShapesFixed(unified.val), id[1]))
    ELSE IF \E a \in DOMAIN out[2] : out[2][a][1] # "Fixed"
    THEN ApplyErr("panic", g, unified.g)
    ELSE ApplyOk(g, unified.g,
                 ArchivePlaceholders(ShapesFixed(EvalShapes(unified.g, out[2])), id[1]))

ApplyUnified(g, target, unified, id) ==
    IF ~unified.ok THEN ApplyErr(unified.err, g, target)
    ELSE ApplyOutput(g, unified, GetLastShapes(unified.g, None), id)

\* set_last_shapes_from_child as the result of apply_shapes_as_input.
ApplyFromChild(child, target) ==
    [ok |-> child.ok, err |-> child.err, g |-> child.g, target |-> target, val |-> child.val]

\* apply_shapes_as_input, the branches on validate_args_rank.
ApplyValidated(g, target, inputs, id, shapes, target_shapes, valid) ==
    IF ~valid.ok THEN ApplyErr(valid.err, g, target)
    ELSE IF valid.val
    THEN ApplyUnified(g, target,
                      UpdateShapes(target, SortedNats(DOMAIN shapes[2]),
                                   target_shapes[2], shapes[2], EmptyMap), id)
    ELSE IF target_shapes[1] = "Dynamic" THEN ApplyOk(g, target, shapes)
    ELSE IF inputs = <<>> /\ IsFirst(id)
    THEN ApplyFromChild(SetLastShapesFromChild(g, target_shapes, id), target)
    ELSE ApplyErr("panic", g, target)

ApplyShapes(g, target, inputs, id, shapes, target_shapes) ==
    ApplyValidated(g, target, inputs, id, shapes, target_shapes,
                   ValidateArgsRank(target_shapes, shapes))

\* Graph::apply_shapes_as_input; get_first_shapes unwraps the first node.
ApplyShapesAsInput(g, target, inputs, id) ==
    IF target.nodes = EmptyMap THEN ApplyErr("panic", g, target)
    ELSE ApplyShapes(g, target, inputs, id, GetLastShapes(g, Some(inputs)),
                     target.nodes[FirstId(target.nodes)].shapes)

\* The positional arguments of one NodeArg (attach_model, repeat == 0).
RECURSIVE PushInputs(_, _, _)

PushInputsNext(g, nodeargs, inputs, found) ==
    IF found = None THEN [ok |-> FALSE, err |-> "NoSuchNode", inputs |-> inputs]
    ELSE PushInputs(g, Tail(nodeargs),
                    Append(inputs, [id |-> Unwrap(found), arg |-> Some(nodeargs[1].arg)]))

PushInputs(g, nodeargs, inputs) ==
    IF nodeargs = <<>> THEN [ok |-> TRUE, err |-> "", inputs |-> inputs]
    ELSE PushInputsNext(g, nodeargs, inputs, GetLastSpecificNodeId(g, nodeargs[1].node))

\* The loop of attach_model over args; a GraphPassArg is <<"NodeArg", list>>
\* or <<"Keyword", name, value>>.
RECURSIVE ApplyArgs(_, _, _, _, _)

ApplyNodeArg(g, sub, id, args, inputs, r) ==
    IF ~r.ok THEN [ok |-> FALSE, err |-> r.err, sub |-> sub, inputs |-> inputs]
    ELSE ApplyArgs(g, sub, id, Tail(args), r.inputs)

ApplyKeyword(g, sub, id, args, inputs, r) ==
    IF ~r.ok THEN [ok |-> FALSE, err |-> r.err, sub |-> sub, inputs |-> inputs]
    ELSE ApplyArgs(g, r.g, id, Tail(args), inputs)

ApplyArgs(g, sub, id, args, inputs) ==
    IF args = <<>> THEN [ok |-> TRUE, err |-> "", sub |-> sub, inputs |-> inputs]
    ELSE IF args[1][1] = "NodeArg"
    THEN ApplyNodeArg(g, sub, id, args, inputs,
                      IF id[3] = 0 THEN PushInputs(g, args[1][2], inputs)
                      ELSE [ok |-> TRUE, err |-> "", inputs |-> inputs])
    ELSE ApplyKeyword(g, sub, id, args, inputs,
                      UpdateVariable(sub, None, Some(args[1][2]), args[1][3],
                                     ValueTypeNew(Some(args[1][3]), FALSE)))

\* An attach_model that keeps the caller's shape state.
AttachShapedKept(model_name, inputs, r) ==
    IF ~r.ok THEN Err(r.err, r.g) @@ [node |-> NodeDefault]
    ELSE Ok(r.g) @@ [node |-> [name |-> model_name, graph |-> Some(r.target),
                               inputs |-> inputs, shapes |-> r.val]]

\* attach_model, the node built from the result r of apply_shapes_as_input.
AttachShaped(model_name, inputs, r) ==
    IF ~r.ok THEN Err(r.err, r.g) @@ [node |-> NodeDefault]
    ELSE Ok([r.g EXCEPT !.shape_state = r.target.shape_state])
           @@ [node |-> [name |-> model_name, graph |-> Some(r.target),
                         inputs |-> inputs, shapes |-> r.val]]

\* attach_model, after the loop over args.
AttachArgs(g, id, model_name, a) ==
    IF ~a.ok THEN Err(a.err, g) @@ [node |-> NodeDefault]
    ELSE AttachShaped(model_name, a.inputs, ApplyShapesAsInput(g, a.sub, a.inputs, id))

\* Graph::attach_model; node is the node to insert.
AttachModel(g, id, model_name, graph, args) ==
    AttachArgs(g, id, model_name, ApplyArgs(g, graph, id, args, <<>>))

\* get_flag: the value of the first argument named "transform".
GetFlag(args) ==
    LET named == {i \in 1 .. Len(args) : args[i][1] = "Keyword" /\ args[i][2] = "transform"}
        first == CHOOSE i \in named : \A j \in named : i <= j
    IN  IF named = {} THEN [ok |-> TRUE, err |-> "", val |-> FALSE]
        ELSE IF args[first][3][1] = "Bool" THEN [ok |-> TRUE, err |-> "", val |-> args[first][3][2]]
        ELSE [ok |-> FALSE, err |-> "DifferentVariableType", val |-> FALSE]

\* A `dynamic` that takes a missing or false flag on any graph.
AttachDynamicAnywhere(g, flag) ==
    IF ~flag.ok THEN Err(flag.err, g) @@ [node |-> NodeDefault]
    ELSE IF flag.val THEN Ok([g EXCEPT !.shape_state = "Transform"]) @@ [node |-> NodeDefault]
    ELSE Ok([g EXCEPT !.shape_state = "RequiredFull"]) @@ [node |-> NodeDefault]

\* Graph::attach, the intrinsic `dynamic`.
AttachDynamic(g, flag) ==
    IF ~flag.ok THEN Err(flag.err, g) @@ [node |-> NodeDefault]
    ELSE IF flag.val THEN Ok([g EXCEPT !.shape_state = "Transform"]) @@ [node |-> NodeDefault]
    ELSE IF g.nodes = EmptyMap
    THEN Ok([g EXCEPT !.shape_state = "RequiredFull"]) @@ [node |-> NodeDefault]
    ELSE Err("FullShapeRequired", g) @@ [node |-> NodeDefault]

\* A `fixed` that is accepted in state Transform as well.
AttachFixedAnyState(g, name) ==
    Ok([g EXCEPT !.shape_state = "RequiredWeak"]) @@ [node |-> [NodeDefault EXCEPT !.name = name]]

\* Graph::attach, the intrinsic `fixed`.
AttachFixed(g, name) ==
    IF g.shape_state = "Transform"
    THEN Err("ShapeNotDefined", g) @@ [node |-> NodeDefault]
    ELSE Ok([g EXCEPT !.shape_state = "RequiredWeak"])
           @@ [node |-> [NodeDefault EXCEPT !.name = name]]

\* Graph::attach, the intrinsic `identity`.
AttachIdentity(g, last_id, name) ==
    IF IsSome(last_id)
    THEN Ok([g EXCEPT !.shape_state = "FixedFull"])
           @@ [node |-> [NodeDefault EXCEPT !.name = name,
                                            !.shapes = GetLastShapes(g, None)]]
    ELSE Err("InputNodeNotFound", g) @@ [node |-> NodeDefault]

\* The node attach builds for id and name, with the graph as the dispatch
\* leaves it (Graph::attach, the match on name).
AttachDispatch(g, last_id, id, name, graph, args) ==
    CASE name = "dynamic" -> AttachDynamic(g, GetFlag(args))
      [] name = "fixed" -> AttachFixed(g, name)
      [] name = "identity" -> AttachIdentity(g, last_id, name)
      [] OTHER ->
            IF IsInput(id)
            THEN Ok([g EXCEPT !.shape_state = "RequiredWeak"])
                   @@ [node |-> [NodeDefault EXCEPT !.name = name]]
            ELSE IF IsSome(graph) \/ name \in DOMAIN g.graphs
            THEN AttachModel(g, id, name,
                             IF IsSome(graph) THEN Unwrap(graph) ELSE g.graphs[name], args)
            ELSE Err("ModelNotFound", g) @@ [node |-> NodeDefault]

\* The insertion keyed without the repeat index.
InsertNodeFlat(g, last_id, id, node) ==
    [g EXCEPT !.nodes = MapInsert(g.nodes, <<id[1], id[2], 0>>,
        [node EXCEPT !.inputs = IF node.inputs # <<>> THEN node.inputs
                                ELSE IF IsSome(last_id) THEN <<WithId(Unwrap(last_id))>>
                                ELSE <<>>])]

\* An insertion that gives every node the default input edge.
InsertNodeDefaultEdge(g, last_id, id, node) ==
    [g EXCEPT !.nodes = MapInsert(g.nodes, id,
        [node EXCEPT !.inputs = IF IsSome(last_id) THEN <<WithId(Unwrap(last_id))>>
                                ELSE <<WithId(id)>>])]

\* The default input edge and the insertion (Graph::attach, after the match).
InsertNode(g, last_id, id, node) ==
    [g EXCEPT !.nodes = MapInsert(g.nodes, id,
        [node EXCEPT !.inputs = IF node.inputs # <<>> THEN node.inputs
                                ELSE IF IsSome(last_id) THEN <<WithId(Unwrap(last_id))>>
                                ELSE <<>>])]

AttachNode(last_id, id, r) ==
    IF ~r.ok THEN Err(r.err, r.g) ELSE Ok(InsertNode(r.g, last_id, id, r.node))

AttachAfter(g, last_id, id, name, graph, args) ==
    IF IsSome(last_id) /\ ~Validate(id, Unwrap(last_id)) THEN Err("UnvalidNodeId", g)
    ELSE AttachNode(last_id, id, AttachDispatch(g, last_id, id, name, graph, args))

\* An attach whose first-node rule fails after the match on the name set
\* the shape state.
AttachFirstLate(g, id, name, graph, args) ==
    IF g.nodes = EmptyMap /\ ~IsInput(id)
    THEN Err("FirstNodeNotFound", [g EXCEPT !.shape_state = "RequiredFull"])
    ELSE AttachAfter(g, IF g.nodes = EmptyMap THEN None ELSE Some(LastId(g.nodes)),
                     id, name, graph, args)

\* Graph::attach; graph is the Option of an inline sub-graph.
Attach(g, id, name, graph, args) ==
    IF g.nodes = EmptyMap /\ ~IsInput(id) THEN Err("FirstNodeNotFound", g)
    ELSE AttachAfter(g, IF g.nodes = EmptyMap THEN None ELSE Some(LastId(g.nodes)),
                     id, name, graph, args)

\* ------------------------------------------------------------------------
\* The model elaborator (src/compile.rs)
\* ------------------------------------------------------------------------

\* Compile for ast::Variable
CompileVariable(v) ==
    [name |-> IF IsSome(v.name) THEN Unwrap(v.name) ELSE v.description,
     variable |-> [description |-> v.description,
                   ty |-> ValueTypeNew(v.default, v.is_model),
                   value |-> v.default]]

\* The ids and pass of every attach of one graph line, in order:
\* (line id, pass index, repeat) for repeat in 0..pass.repeat.
RECURSIVE PassAttaches(_, _, _)
PassAttaches(line_id, passes, pass_idx) ==
    IF pass_idx > Len(passes) THEN <<>>
    ELSE [r \in 1 .. passes[pass_idx].repeat |->
            [id |-> <<line_id, pass_idx - 1, r - 1>>, pass |-> passes[pass_idx]]]
         \o PassAttaches(line_id, passes, pass_idx + 1)

\* The attach loop of Compile for ast::Graph; inline is taken by the first
\* attach (inline.take()).
RECURSIVE AttachAll(_, _, _)

AttachAllNext(r, attaches) ==
    IF ~r.ok THEN r ELSE AttachAll(r.g, Tail(attaches), None)

AttachAll(g, attaches, inline) ==
    IF attaches = <<>> THEN Ok(g)
    ELSE AttachAllNext(Attach(g, attaches[1].id, attaches[1].pass.name, inline,
                              attaches[1].pass.args), attaches)

RECURSIVE CompileModel(_, _)

\* Compile for ast::Graph, the end: adjust_shapes where shapes are declared.
GraphShapes(line, attached) ==
    IF ~attached.ok THEN attached
    ELSE IF IsSome(line.shapes) THEN AdjustShapes(attached.g, Unwrap(line.shapes))
    ELSE attached

\* Compile for ast::Graph, the attach loop once the inline model compiled to
\* inl.
GraphAttach(line, g, inl) ==
    IF ~inl.ok THEN Err(inl.err, g)
    ELSE AttachAll(g, PassAttaches(line.id, line.passes, 1),
                   IF IsSome(line.inline) THEN Some(inl.g) ELSE None)

\* Compile for ast::Graph up to adjust_shapes: the inline model and the
\* attach loop.
GraphPasses(line, g) ==
    GraphAttach(line, g, IF IsSome(line.inline) THEN CompileModel(Unwrap(line.inline), g)
                         ELSE Ok(g))

\* Compile for ast::Graph: one graph line [id, inline, passes, shapes].
CompileGraph(line, g) == GraphShapes(line, GraphPasses(line, g))

\* The children of a fresh model, each compiled against the new child graph
\* and added once all are compiled (compile.rs, `children`).
RECURSIVE CompileChildren(_, _, _)

\* Children that are compiled and then dropped.
CompileChildrenDropped(r, children, prefab, acc) ==
    IF ~r.ok THEN Err(r.err, acc)
    ELSE CompileChildren(Tail(children), prefab, acc)

CompileChildrenNext(r, children, prefab, acc) ==
    IF ~r.ok THEN Err(r.err, acc)
    ELSE CompileChildren(Tail(children), prefab, AddGraph(acc, children[1].name, r.g))

CompileChildren(children, prefab, acc) ==
    IF children = <<>> THEN Ok(acc)
    ELSE CompileChildrenNext(CompileModel(children[1], prefab), children, prefab, acc)

\* Compile for ast::Model, up to the variables: the child graph and whether
\* the block is an override.
ModelBegin(m, parent) ==
    IF m.is_extern
    THEN IF m.children # <<>> THEN Err("UnexpectedChild", parent) @@ [is_override |-> FALSE]
         ELSE IF Len(m.graph) # 2 THEN Err("UnknownGraph", parent) @@ [is_override |-> FALSE]
         ELSE Ok(GraphNew(TRUE)) @@ [is_override |-> FALSE]
    ELSE IF m.name \in DOMAIN parent.graphs
    THEN IF m.children # <<>> THEN Err("OverrideChild", parent) @@ [is_override |-> TRUE]
         ELSE IF m.graph # <<>> THEN Err("OverrideGraph", parent) @@ [is_override |-> TRUE]
         ELSE Ok(parent.graphs[m.name]) @@ [is_override |-> TRUE]
    ELSE IF m.graph = <<>> THEN Err("NoGraph", parent) @@ [is_override |-> FALSE]
    ELSE CompileChildren(m.children, NewChild(parent), NewChild(parent))
           @@ [is_override |-> FALSE]

\* An override that skips a variable without a value.
DeclareVariableLenient(child, is_override, c) ==
    IF is_override
    THEN IF IsSome(c.variable.value)
         THEN UpdateVariable(child, Some(c.variable.description), Some(c.name),
                             Unwrap(c.variable.value), c.variable.ty)
         ELSE Ok(child)
    ELSE AddVariable(child, Some(c.name), c.variable)

\* update_variable of an override block, or add_variable, for the compiled
\* variable c.
DeclareVariable(child, is_override, c) ==
    IF is_override
    THEN IF IsSome(c.variable.value)
         THEN UpdateVariable(child, Some(c.variable.description), Some(c.name),
                             Unwrap(c.variable.value), c.variable.ty)
         ELSE Err("NoVariableValue", child)
    ELSE AddVariable(child, Some(c.name), c.variable)

\* One declared variable of a model (compile.rs, the two variable loops).
ModelVariable(child, is_override, v) == DeclareVariable(child, is_override, CompileVariable(v))

RECURSIVE ModelVariables(_, _, _)

ModelVariablesNext(r, is_override, variables) ==
    IF ~r.ok THEN r ELSE ModelVariables(r.g, is_override, Tail(variables))

ModelVariables(child, is_override, variables) ==
    IF variables = <<>> THEN Ok(child)
    ELSE ModelVariablesNext(ModelVariable(child, is_override, variables[1]),
                            is_override, variables)

\* The graph lines of a model, in order (compile.rs, `for node in graph`).
RECURSIVE ModelGraph(_, _)

ModelGraphNext(r, lines) ==
    IF ~r.ok THEN r ELSE ModelGraph(r.g, Tail(lines))

ModelGraph(child, lines) ==
    IF lines = <<>> THEN Ok(child) ELSE ModelGraphNext(CompileGraph(lines[1], child), lines)

\* An end that finalizes every model.
ModelEndFinalized(is_extern, is_override, child) == Finalize(child)

\* The end of Compile for ast::Model: finalize unless extern or override.
ModelEnd(is_extern, is_override, child) ==
    IF ~is_extern /\ ~is_override THEN Finalize(child) ELSE Ok(child)

ModelLines(m, is_override, l) ==
    IF ~l.ok THEN l ELSE ModelEnd(m.is_extern, is_override, l.g)

ModelDeclared(m, is_override, v) ==
    IF ~v.ok THEN v ELSE ModelLines(m, is_override, ModelGraph(v.g, m.graph))

ModelBegun(m, b) ==
    IF ~b.ok THEN Err(b.err, b.g)
    ELSE ModelDeclared(m, b.is_override, ModelVariables(b.g, b.is_override, m.variables))

\* Compile for ast::Model [name, is_extern, children, variables, graph];
\* g is the compiled child.
CompileModel(m, parent) == ModelBegun(m, ModelBegin(m, parent))

\* ------------------------------------------------------------------------
\* Sources: the syntax trees n3_parser hands to the elaborator
\* ------------------------------------------------------------------------

\* ast::GraphPass
GraphPass(name, repeat, args) == [name |-> name, repeat |-> repeat, args |-> args]

\* ast::Graph: one line `#id passes = shapes`.
GraphLine(id, inline, passes, shapes) ==
    [id |-> id, inline |-> inline, passes |-> passes, shapes |-> shapes]

\* ast::Shapes of a line that declares its first argument only.
OneShape(dims) == Some([a \in {0} |-> dims])

\* ast::Model
Model(name, is_extern, children, variables, graph) ==
    [name |-> name, is_extern |-> is_extern, children |-> children,
     variables |-> variables, graph |-> graph]

\* ast::Variable
AstVariable(description, name, default) ==
    [description |-> description, name |-> name, default |-> default, is_model |-> FALSE]

\* ast::File
File(uses, model) == [uses |-> uses, model |-> model]

\* ------------------------------------------------------------------------
\* The registry (src/graphs/root.rs); a root is [graphs, compiling, prefabs].
\* ------------------------------------------------------------------------

Root(gs, cp, pf) == [graphs |-> gs, compiling |-> cp, prefabs |-> pf]

\* find_graph and load_graph without the recursion guard.
FindGraphUnguarded(root, name) ==
    IF name \in DOMAIN root.graphs
    THEN [root |-> root, out |-> <<"ok", root.graphs[name]>>]
    ELSE IF name \in DOMAIN root.prefabs
    THEN [root |-> [root EXCEPT !.prefabs = MapRemove(root.prefabs, name)],
          out |-> <<"compile", root.prefabs[name]>>]
    ELSE [root |-> root, out |-> <<"err", "ModelNotFound">>]

\* load_graph that caches the graph and keeps the name in compiling.
LoadGraphFinishHeld(root, name, model) ==
    [root EXCEPT !.graphs = MapInsert(root.graphs, name, model)]

\* compile_from_source that returns the graph without caching it.
SourceFinishUncached(root, name, graph) == root

\* find_graph that compiles the prefab and leaves it among the prefabs.
FindGraphPrefabKept(root, name) ==
    IF name \in DOMAIN root.graphs
    THEN [root |-> root, out |-> <<"ok", root.graphs[name]>>]
    ELSE IF name \in root.compiling
    THEN [root |-> root, out |-> <<"err", "RecursiveUsage">>]
    ELSE LET held == [root EXCEPT !.compiling = root.compiling \cup {name}]
         IN  IF name \in DOMAIN root.prefabs
             THEN [root |-> held, out |-> <<"compile", root.prefabs[name]>>]
             ELSE [root |-> held, out |-> <<"err", "ModelNotFound">>]

\* GraphRoot::find_graph down to the point where the file is compiled
\* (find_graph, load_graph, load_graph_local): out is <<"ok", graph>>,
\* <<"err", error>> or <<"compile", file>>.
FindGraphStart(root, name) ==
    IF name \in DOMAIN root.graphs
    THEN [root |-> root, out |-> <<"ok", root.graphs[name]>>]
    ELSE IF name \in root.compiling
    THEN [root |-> root, out |-> <<"err", "RecursiveUsage">>]
    ELSE LET held == [root EXCEPT !.compiling = root.compiling \cup {name}]
         IN  IF name \in DOMAIN root.prefabs
             THEN [root |-> [held EXCEPT !.prefabs = MapRemove(root.prefabs, name)],
                   out |-> <<"compile", root.prefabs[name]>>]
             ELSE [root |-> held, out |-> <<"err", "ModelNotFound">>]

\* load_graph after the file compiled: release the guard and cache the graph.
LoadGraphFinish(root, name, model) ==
    [root EXCEPT !.compiling = root.compiling \ {name},
                 !.graphs = MapInsert(root.graphs, name, model)]

\* compile_from_source over imports that are shared with the registry: the
\* sub-graph a node ends with is the registry's graph of that name.
SourceFinishShared(root, name, graph) ==
    LET users(n) == {id \in DOMAIN graph.nodes :
                        graph.nodes[id].name = n /\ IsSome(graph.nodes[id].graph)}
        shared == [n \in DOMAIN root.graphs |->
                      IF users(n) = {} THEN root.graphs[n]
                      ELSE Unwrap(graph.nodes[LastId([id \in users(n) |-> id])].graph)]
    IN  [root EXCEPT !.graphs = MapInsert(shared, name, graph)]

\* compile_from_source after the file compiled: cache the graph.
SourceFinish(root, name, graph) ==
    [root EXCEPT !.graphs = MapInsert(root.graphs, name, graph)]

\* Compile for ast::File, before the uses: the graph the uses are added to.
FileGraph(file) == GraphNew(file.model.is_extern)

\* One frame of the call stack: a file being compiled by load_graph ("load")
\* or by compile_from_source ("source"), with the uses still to be compiled.
Frame(kind, name, file) ==
    [kind |-> kind, name |-> name, uses |-> file.uses, model |-> file.model,
     graph |-> FileGraph(file)]

\* ------------------------------------------------------------------------
\* The inputs of the elaborator: the library and the models compiled
\* ------------------------------------------------------------------------

Fixed(n) == <<"Fixed", n>>

Semantic(name) == <<"Semantic", name>>

Expr(lhs, rhs, op) == <<"Expr", lhs, rhs, op>>

OnePass(name) == <<GraphPass(name, 1, <<>>)>>

\* extern [Linear]: `#0 Input = Ic`, `#1 fixed = Oc`.
ExternLinear ==
    Model("Linear", TRUE, <<>>, <<>>,
          <<GraphLine(0, None, OnePass("Input"), OneShape(<<Semantic("Ic")>>)),
            GraphLine(1, None, OnePass("fixed"), OneShape(<<Semantic("Oc")>>))>>)

\* extern [ReLU]: `#0 Input`, `#1 identity`.
ExternReLU ==
    Model("ReLU", TRUE, <<>>, <<>>,
          <<GraphLine(0, None, OnePass("Input"), None),
            GraphLine(1, None, OnePass("identity"), None)>>)

\* extern [Scale]: `* weight = 2`, `* bias = 1`, `#0 Input = N`,
\* `#1 fixed = N * weight`.
ExternScale ==
    Model("Scale", TRUE, <<>>,
          <<AstVariable("weight", None, Some(<<"UInt", 2>>)),
            AstVariable("bias", None, Some(<<"UInt", 1>>))>>,
          <<GraphLine(0, None, OnePass("Input"), OneShape(<<Semantic("N")>>)),
            GraphLine(1, None, OnePass("fixed"),
                      OneShape(<<Expr(Semantic("N"), Semantic("weight"), "Mul")>>))>>)

\* extern [Transform]: `#0 Input`, `#1 dynamic (transform=true)`.
ExternTransform ==
    Model("Transform", TRUE, <<>>, <<>>,
          <<GraphLine(0, None, OnePass("Input"), None),
            GraphLine(1, None,
                      <<GraphPass("dynamic", 1, << <<"Keyword", "transform", <<"Bool", TRUE>>>> >>)>>,
                      None)>>)

Library == <<ExternLinear, ExternReLU, ExternScale, ExternTransform>>

\* Compile for ast::File of a model that uses the whole library, up to the
\* model: every `use` compiled and added.
RECURSIVE UseLibrary(_, _)
UseLibrary(graph, externs) ==
    IF externs = <<>> THEN graph
    ELSE UseLibrary(AddGraph(graph, externs[1].name,
                             CompileModel(externs[1], FileGraph(File(<<>>, externs[1]))).g),
                    Tail(externs))

ParentGraph == UseLibrary(GraphNew(FALSE), Library)

\* [Inner]: `* weight = 2`, `#0 Input = N`, `#1 Linear + ReLU = N * weight`.
InnerModel ==
    Model("Inner", FALSE, <<>>, <<AstVariable("weight", None, Some(<<"UInt", 2>>))>>,
          <<GraphLine(0, None, OnePass("Input"), OneShape(<<Semantic("N")>>)),
            GraphLine(1, None, <<GraphPass("Linear", 1, <<>>), GraphPass("ReLU", 1, <<>>)>>,
                      OneShape(<<Expr(Semantic("N"), Semantic("weight"), "Mul")>>))>>)

MaxLines == 3

MaxVariables == 1

MaxRepeat == 2

\* The first line of a model: `#0 Input` with or without shapes, and a first
\* line that is not #0.
FirstLines ==
    {GraphLine(0, None, OnePass("Input"), sh) :
        sh \in {None, OneShape(<<Fixed(4)>>), OneShape(<<Semantic("Ic")>>),
                OneShape(<<Fixed(3), Fixed(4)>>)}}
      \cup {GraphLine(1, None, OnePass("Input"), None)}

\* The line `#id ...` after the first.
LaterLines(id) ==
    {GraphLine(id, None, OnePass("Linear"), OneShape(<<Fixed(4)>>)),
     GraphLine(id, None, OnePass("Linear"), OneShape(<<Semantic("N")>>)),
     GraphLine(id, None, <<GraphPass("Linear", 1, <<>>), GraphPass("ReLU", 1, <<>>)>>,
               OneShape(<<Fixed(2)>>)),
     GraphLine(id, None,
               <<GraphPass("Linear", 1, << <<"NodeArg", <<[node |-> 0, arg |-> 0]>>>> >>)>>,
               OneShape(<<Fixed(4)>>)),
     GraphLine(id, None, OnePass("identity"), None),
     GraphLine(id, None, OnePass("Transform"), OneShape(<<Fixed(2), Fixed(6)>>)),
     GraphLine(id, None, OnePass("Transform"), OneShape(<<Fixed(12)>>)),
     GraphLine(id, None, OnePass("Scale"), None),
     GraphLine(id, None, OnePass("Inner"), None),
     GraphLine(id, Some(InnerModel), OnePass("Inner"), OneShape(<<Fixed(8)>>)),
     GraphLine(id, None, OnePass("fixed"), OneShape(<<Fixed(4)>>)),
     GraphLine(id, None, OnePass("dynamic"), None),
     GraphLine(id + 1, None, OnePass("ReLU"), None)}
      \cup {GraphLine(id, None, <<GraphPass("ReLU", r, <<>>)>>, None) : r \in 1 .. MaxRepeat}

\* The graphs of k lines.
RECURSIVE LineSeqs(_)
LineSeqs(k) ==
    IF k = 0 THEN {<<>>}
    ELSE {Append(lines, l) : lines \in LineSeqs(k - 1),
                             l \in IF k = 1 THEN FirstLines ELSE LaterLines(k - 1)}

DeclaredVariables ==
    {AstVariable("number of channels", Some("N"), Some(<<"UInt", 3>>)),
     AstVariable("number of channels", Some("N"), None),
     AstVariable("weight", None, Some(<<"UInt", 3>>))}

\* The block `[Scale] * weight = 3` that overrides the library's Scale.
ScaleOverride ==
    Model("Scale", FALSE, <<>>, <<AstVariable("weight", None, Some(<<"UInt", 3>>))>>, <<>>)

\* A new model M with or without the child Inner or the override block of
\* Scale, an extern model E, and a block that overrides the library's Scale.
PlainAsts ==
    {Model(h[1], h[2], h[3], vs, lines) :
        h \in {<<"M", FALSE, <<>>>>, <<"M", FALSE, <<InnerModel>>>>, <<"E", TRUE, <<>>>>,
               <<"Scale", FALSE, <<>>>>, <<"M", FALSE, <<ScaleOverride>>>>},
        vs \in UNION {[1 .. k -> DeclaredVariables] : k \in 0 .. MaxVariables},
        lines \in UNION {LineSeqs(k) : k \in 0 .. MaxLines}}

MaxOverrideVariables == 2

OverrideVariables ==
    DeclaredVariables
      \cup {AstVariable("bias", None, Some(<<"UInt", 5>>)), AstVariable("weight", None, None),
            AstVariable("weight", None, Some(<<"Bool", TRUE>>))}

\* Blocks named after a model of the library, with or without a child and a
\* graph line.
OverrideAsts ==
    {Model(name, FALSE, children, vs, lines) :
        name \in {"Scale", "Linear"},
        children \in {<<>>, <<InnerModel>>},
        vs \in UNION {[1 .. k -> OverrideVariables] : k \in 0 .. MaxOverrideVariables},
        lines \in LineSeqs(0) \cup LineSeqs(1)}

\* Extern models that declare a child.
ExternChildAsts ==
    {Model("E", TRUE, <<InnerModel>>, <<>>, lines) : lines \in LineSeqs(1) \cup LineSeqs(2)}

\* The models handed to Compile for ast::Model.
ModelAsts ==
    PlainAsts \cup OverrideAsts \cup ExternChildAsts \cup {Library[i] : i \in DOMAIN Library}

\* ------------------------------------------------------------------------
\* The inputs of the registry: names, prefab files and sources
\* ------------------------------------------------------------------------

Names == {"A", "B", "C"}

MaxUses == 2

MaxSourceUses == 1

MaxCalls == 2

\* The `use` lists of a file: up to MaxUses names, none twice.
UsesSet ==
    {u \in UNION {[1 .. k -> Names] : k \in 0 .. MaxUses} :
        \A i, j \in DOMAIN u : u[i] = u[j] => i = j}

InputLine(shapes) == GraphLine(0, None, <<GraphPass("Input", 1, <<>>)>>, shapes)

\* `#0 Input = dim` and `#1 identity`: compiles, in state Fixed(Full).
GoodBody(dim) ==
    <<InputLine(OneShape(<< <<"Fixed", dim>> >>)),
      GraphLine(1, None, <<GraphPass("identity", 1, <<>>)>>, None)>>

\* `#0 Input` alone: finalize fails with FullShapeRequired.
BadBody == <<InputLine(None)>>

NameDim(name) == CASE name = "A" -> 1 [] name = "B" -> 2 [] OTHER -> 3

\* The files a directory can hold under the name of a model.
PrefabFiles(name) ==
    {File(u, Model(name, FALSE, <<>>, <<>>, GoodBody(NameDim(name)))) : u \in UsesSet}
        \cup {File(<<>>, Model(name, FALSE, <<>>, <<>>, BadBody))}

PrefabMaps ==
    UNION {{f \in [S -> UNION {PrefabFiles(n) : n \in S}] : \A n \in S : f[n] \in PrefabFiles(n)} :
              S \in SUBSET Names}

\* The sources handed to compile_from_source; None is a text that does not
\* parse.
Sources ==
    {Some(File(u, Model(n, FALSE, <<>>, <<>>, GoodBody(4)))) :
        u \in {v \in UsesSet : Len(v) <= MaxSourceUses}, n \in Names}
        \cup {None}

\* The directory that holds the library: one file for each extern model.
LibraryNames == {Library[i].name : i \in DOMAIN Library}

LibraryPrefabs ==
    [n \in LibraryNames |-> File(<<>>, CHOOSE m \in {Library[i] : i \in DOMAIN Library} : m.name = n)]

\* The lines after `#0 Input = 4` of a source that uses the library: a call
\* that unifies the placeholders of the import with the incoming shapes,
\* with or without a keyword argument.
LibraryLines(id) ==
    {GraphLine(id, None, OnePass("Scale"), None),
     GraphLine(id, None, <<GraphPass("Scale", 1, << <<"Keyword", "weight", <<"UInt", 5>>>> >>)>>,
               None),
     GraphLine(id, None, OnePass("Linear"), OneShape(<<Fixed(4)>>)),
     GraphLine(id, None, OnePass("ReLU"), None)}

LibraryBodies ==
    {<<GraphLine(0, None, OnePass("Input"), OneShape(<<Fixed(4)>>)), l>> : l \in LibraryLines(1)}
      \cup {<<GraphLine(0, None, OnePass("Input"), OneShape(<<Fixed(4)>>)), l, k>> :
                l \in LibraryLines(1), k \in LibraryLines(2)}

\* The sources that use the library: model M, with or without the block
\* that overrides Scale.
LibrarySources ==
    {Some(File(u, Model("M", FALSE, children, <<>>, body))) :
        u \in {<<"Scale">>, <<"Linear", "Scale">>, <<"Scale", "ReLU", "Linear">>},
        children \in {<<>>, <<ScaleOverride>>},
        body \in LibraryBodies}

VARIABLES graphs, compiling, prefabs, stack, status, call, result, prev, ncalls

\* One run of Compile for ast::Model, step by step: the model, the child
\* graph under construction, the next variable and line, the child before
\* the last step, and how the run ended.
VARIABLES pc, ast, child, is_override, vi, li, prior, outcome

\* One run of Compile for ast::Graph, call by call: the line being compiled,
\* the attaches of its loop still to make, the attach made last, the
\* number of attaches that returned Ok, and the compiled inline model that
\* the first attach of the line takes; and the call made last on the
\* dims of a graph.
VARIABLES line, todo, tried, nattached, inlined, applied

rvars == <<graphs, compiling, prefabs, stack, status, call, result, prev, ncalls>>

gvars == <<line, todo, tried, nattached, inlined, applied>>

mvars == <<pc, ast, child, is_override, vi, li, prior, outcome, line, todo, tried, nattached,
          inlined, applied>>

vars == <<graphs, compiling, prefabs, stack, status, call, result, prev, ncalls,
          pc, ast, child, is_override, vi, li, prior, outcome, line, todo, tried, nattached,
          inlined, applied>>

RootNow == Root(graphs, compiling, prefabs)

SetRoot(root) ==
    /\ graphs' = root.graphs
    /\ compiling' = root.compiling
    /\ prefabs' = root.prefabs

ResOk(g) == [ok |-> TRUE, err |-> "", graph |-> Some(g)]

ResErr(e) == [ok |-> FALSE, err |-> e, graph |-> None]

NoResult == [ok |-> FALSE, err |-> "", graph |-> None]

NoCall ==
    [op |-> "none", name |-> "", uses |-> <<>>, graphs0 |-> EmptyMap, compiling0 |-> {},
     prefabs0 |-> EmptyMap]

Running(at) == [ok |-> FALSE, err |-> "", at |-> at]

\* No model is being compiled.
ModelIdle ==
    /\ pc = "idle"
    /\ ast = Model("", FALSE, <<>>, <<>>, <<>>)
    /\ child = GraphNew(FALSE)
    /\ is_override = FALSE
    /\ vi = 1
    /\ li = 1
    /\ prior = GraphNew(FALSE)
    /\ outcome = Running("idle")
    /\ line = GraphLine(0, None, <<>>, None)
    /\ todo = <<>>
    /\ tried = None
    /\ nattached = 0
    /\ inlined = None
    /\ applied = None

\* No call was made on a root that holds the prefabs pf.
RootIdle(pf) ==
    /\ graphs = EmptyMap
    /\ compiling = {}
    /\ prefabs = pf
    /\ stack = <<>>
    /\ status = "idle"
    /\ call = NoCall
    /\ result = NoResult
    /\ prev = [op |-> "none", name |-> "", result |-> NoResult]
    /\ ncalls = 0

Init == (\E pf \in PrefabMaps : RootIdle(pf)) /\ ModelIdle

\* The user calls the root when no call is running.
CanCall == status # "running" /\ ncalls < MaxCalls

\* A public call starts: the call and the registry as it finds it are
\* recorded, and the call before it with its result.
BeginCall(op, name, uses) ==
    /\ ncalls' = ncalls + 1
    /\ call' = [op |-> op, name |-> name, uses |-> uses, graphs0 |-> graphs,
                compiling0 |-> compiling, prefabs0 |-> prefabs]
    /\ prev' = [op |-> call.op, name |-> call.name, result |-> result]
    /\ UNCHANGED mvars

\* The public call returns res; an error leaves through `?` at every level.
Finished(res) ==
    /\ status' = "done"
    /\ result' = res
    /\ stack' = <<>>

\* root.find_graph(name, Local), called by the user.
FindGraph(name) ==
    /\ BeginCall("find_graph", name, <<>>)
    /\ LET s == FindGraphStart(RootNow, name)
       IN  /\ SetRoot(s.root)
           /\ IF s.out[1] = "compile"
              THEN /\ status' = "running"
                   /\ stack' = <<Frame("load", name, s.out[2])>>
                   /\ result' = NoResult
              ELSE IF s.out[1] = "ok" THEN Finished(ResOk(s.out[2]))
              ELSE Finished(ResErr(s.out[2]))

\* root.compile_from_source(source), called by the user.
CompileFromSource(src) ==
    /\ BeginCall("compile_from_source", IF IsSome(src) THEN Unwrap(src).model.name ELSE "",
                 IF IsSome(src) THEN Unwrap(src).uses ELSE <<>>)
    /\ UNCHANGED <<graphs, compiling, prefabs>>
    /\ IF IsSome(src)
       THEN /\ status' = "running"
            /\ stack' = <<Frame("source", Unwrap(src).model.name, Unwrap(src))>>
            /\ result' = NoResult
       ELSE Finished(ResErr("ParseError"))

\* Compile for ast::Use of the next `use` of the file on top of the stack:
\* the nested root.find_graph.
UseStep ==
    /\ status = "running"
    /\ stack[Len(stack)].uses # <<>>
    /\ LET top == stack[Len(stack)]
           name == Head(top.uses)
           s == FindGraphStart(RootNow, name)
       IN  /\ SetRoot(s.root)
           /\ IF s.out[1] = "compile"
              THEN /\ stack' = Append(stack, Frame("load", name, s.out[2]))
                   /\ UNCHANGED <<status, result>>
              ELSE IF s.out[1] = "ok"
              THEN /\ stack' = [stack EXCEPT ![Len(stack)] =
                                   [top EXCEPT !.graph = AddGraph(top.graph, name, s.out[2]),
                                               !.uses = Tail(top.uses)]]
                   /\ UNCHANGED <<status, result>>
              ELSE Finished(ResErr(s.out[2]))
    /\ UNCHANGED <<call, prev, ncalls>>
    /\ UNCHANGED mvars

\* The model of the file on top of the stack compiles and the file returns
\* to its caller: load_graph or compile_from_source caches the graph, and a
\* nested load hands it to the `use` that asked for it.
ModelStep ==
    /\ status = "running"
    /\ stack[Len(stack)].uses = <<>>
    /\ LET top == stack[Len(stack)]
           r == CompileModel(top.model, top.graph)
           cached == IF top.kind = "load" THEN LoadGraphFinish(RootNow, top.name, r.g)
                     ELSE SourceFinish(RootNow, top.name, r.g)
           caller == stack[Len(stack) - 1]
       IN  IF ~r.ok
           THEN Finished(ResErr(r.err)) /\ UNCHANGED <<graphs, compiling, prefabs>>
           ELSE /\ SetRoot(cached)
                /\ IF Len(stack) = 1 THEN Finished(ResOk(r.g))
                   ELSE /\ stack' = [SubSeq(stack, 1, Len(stack) - 1) EXCEPT ![Len(stack) - 1] =
                                        [caller EXCEPT !.graph = AddGraph(caller.graph, top.name, r.g),
                                                       !.uses = Tail(caller.uses)]]
                        /\ UNCHANGED <<status, result>>
    /\ UNCHANGED <<call, prev, ncalls>>
    /\ UNCHANGED mvars

FindGraphCall == CanCall /\ \E name \in Names : FindGraph(name)

CompileFromSourceCall == CanCall /\ \E src \in Sources : CompileFromSource(src)

Next ==
    \/ FindGraphCall
    \/ CompileFromSourceCall
    \/ UseStep
    \/ ModelStep

Spec == Init /\ [][Next]_vars

\* ModelStep can be taken: it has no other guard, and it ends the call or
\* pops the stack.
ModelReady == status = "running" /\ stack[Len(stack)].uses = <<>>

\* The registry when every call that was entered runs on: the compiler is
\* sequential code, so the file on top of the stack takes its next step.
\* The weak fairness of ModelStep is written out, with ModelReady for
\* ENABLED <<ModelStep>>_vars.
SpecLive ==
    /\ Spec
    /\ WF_vars(UseStep)
    /\ ([]<>(~ModelReady) \/ []<><<ModelStep>>_vars)

\* The registry over the library directory: the user asks for a library model
\* or compiles a source that uses the library.
FindLibraryCall == CanCall /\ \E name \in LibraryNames : FindGraph(name)

CompileLibrarySourceCall == CanCall /\ \E src \in LibrarySources : CompileFromSource(src)

NextLibrary ==
    \/ FindLibraryCall
    \/ CompileLibrarySourceCall
    \/ UseStep
    \/ ModelStep

InitLibrary == RootIdle(LibraryPrefabs) /\ ModelIdle

SpecLibrary == InitLibrary /\ [][NextLibrary]_vars

\* ------------------------------------------------------------------------
\* Compile for ast::Model, one step at a time (src/compile.rs)
\* ------------------------------------------------------------------------

\* Where the compilation stands with variable v and line l next.
PcAt(m, v, l) ==
    IF v <= Len(m.variables) THEN "variables"
    ELSE IF l <= Len(m.graph) THEN "passes"
    ELSE "end"

\* A step returned r: an error leaves the compilation through `?`.
Stepped(at, r, next, v, l) ==
    /\ prior' = child
    /\ child' = r.g
    /\ vi' = v
    /\ li' = l
    /\ pc' = IF r.ok THEN next ELSE "done"
    /\ outcome' = IF r.ok /\ next # "done" THEN Running(at)
                  ELSE [ok |-> r.ok, err |-> r.err, at |-> at]
    /\ UNCHANGED rvars
    /\ UNCHANGED gvars

\* model.compile(parent) is entered: the header checks, the child graph and
\* the children.
Begun(m, b) ==
    /\ ast' = m
    /\ is_override' = b.is_override
    /\ Stepped("begin", b, PcAt(m, 1, 1), 1, 1)

BeginStep ==
    /\ pc = "idle"
    /\ \E m \in ModelAsts : Begun(m, ModelBegin(m, ParentGraph))

\* The next declared variable.
VariableStep ==
    /\ pc = "variables"
    /\ Stepped("variable", ModelVariable(child, is_override, ast.variables[vi]),
               PcAt(ast, vi + 1, li), vi + 1, li)
    /\ UNCHANGED <<ast, is_override>>

\* The next graph line, up to adjust_shapes: its inline model and its
\* passes are attached.
PassesStep ==
    /\ pc = "passes"
    /\ IF IsSome(ast.graph[li].shapes)
       THEN Stepped("passes", GraphPasses(ast.graph[li], child), "shapes", vi, li)
       ELSE Stepped("passes", GraphPasses(ast.graph[li], child), PcAt(ast, vi, li + 1),
                    vi, li + 1)
    /\ UNCHANGED <<ast, is_override>>

\* adjust_shapes of the line whose passes were attached.
ShapesStep ==
    /\ pc = "shapes"
    /\ Stepped("shapes", GraphShapes(ast.graph[li], Ok(child)), PcAt(ast, vi, li + 1),
               vi, li + 1)
    /\ UNCHANGED <<ast, is_override>>

\* The end of the model: finalize unless extern or override.
EndStep ==
    /\ pc = "end"
    /\ Stepped("end", ModelEnd(ast.is_extern, is_override, child), "done", vi, li)
    /\ UNCHANGED <<ast, is_override>>

NextModel ==
    \/ BeginStep
    \/ VariableStep
    \/ PassesStep
    \/ ShapesStep
    \/ EndStep

InitModel == RootIdle(EmptyMap) /\ ModelIdle

SpecModel == InitModel /\ [][NextModel]_vars

\* ------------------------------------------------------------------------
\* Compile for ast::Graph, one call on the graph at a time (src/compile.rs,
\* src/graphs/graph.rs)
\* ------------------------------------------------------------------------

MaxGraphLines == 3

\* The positional argument `(#n:0)` of a pass.
NodeArgs(n) == << <<"NodeArg", <<[node |-> n, arg |-> 0]>>>> >>

\* The passes of a line: one pass, repeated 0 to MaxRepeat times if it
\* calls a model, two passes the first of which may be repeated 0 times,
\* three passes the second of which is repeated 0 times, and a pass with a
\* node argument `(#n:0)` or with the keyword argument `transform`.
GraphPassSeqs ==
    {OnePass(n) : n \in {"Input", "identity", "fixed", "dynamic"}}
      \cup {<<GraphPass(n, r, <<>>)>> : n \in {"Linear", "ReLU"}, r \in 0 .. MaxRepeat}
      \cup {<<GraphPass(n, r, <<>>), GraphPass("ReLU", 1, <<>>)>> :
                n \in {"ReLU", "Linear"}, r \in 0 .. 1}
      \cup {<<GraphPass("ReLU", 1, <<>>), GraphPass("ReLU", 0, <<>>), GraphPass("ReLU", 1, <<>>)>>,
            <<GraphPass("Linear", 1, NodeArgs(0))>>,
            <<GraphPass("ReLU", 2, NodeArgs(0))>>,
            <<GraphPass("ReLU", 1, NodeArgs(1))>>,
            <<GraphPass("ReLU", 1, NodeArgs(5))>>,
            <<GraphPass("dynamic", 1, << <<"Keyword", "transform", <<"Bool", TRUE>>>> >>)>>,
            <<GraphPass("dynamic", 1, << <<"Keyword", "transform", <<"Bool", FALSE>>>> >>)>>,
            <<GraphPass("dynamic", 1, << <<"Keyword", "transform", <<"UInt", 1>>>> >>)>>}

\* The shapes a line declares: none, `= 4`, `= N` and `= Oc`.
GraphShapeDecls ==
    {None, OneShape(<<Fixed(4)>>), OneShape(<<Semantic("N")>>), OneShape(<<Semantic("Oc")>>)}

\* The k-th line of a graph: numbered k - 1 as the lines before it leave
\* it, or one more, and the second line also #0 again; or the line
\* `#(k-1) [Inner] ...` that declares the model it calls.
GraphLines(k) ==
    {GraphLine(id, None, passes, sh) :
        id \in {k - 1, k} \cup (IF k = 2 THEN {0} ELSE {}), passes \in GraphPassSeqs,
        sh \in GraphShapeDecls}
      \cup {GraphLine(k - 1, Some(InnerModel), OnePass("Inner"), sh) : sh \in GraphShapeDecls}

\* The graph the lines are compiled into: the child of a parent that uses
\* the library, with the variable `* N: number of channels = 3`.
GraphStart ==
    ModelVariable(NewChild(ParentGraph), FALSE,
                  AstVariable("number of channels", Some("N"), Some(<<"UInt", 3>>))).g

\* What follows the attaches of the line l.
AfterAttaches(l) == IF IsSome(l.shapes) THEN "adjust" ELSE "line"

\* A call on the graph returned r.
Called(at, r, next) ==
    /\ prior' = child
    /\ child' = r.g
    /\ pc' = IF r.ok THEN next ELSE "done"
    /\ outcome' = [ok |-> r.ok, err |-> r.err, at |-> at]
    /\ UNCHANGED rvars
    /\ UNCHANGED <<ast, is_override, vi>>

\* Compile for ast::Graph is entered for the next line of the model.
LineBegun(l, inl) ==
    /\ line' = l
    /\ inlined' = IF inl.ok /\ IsSome(l.inline) THEN Some(inl.g) ELSE None
    /\ todo' = IF inl.ok THEN PassAttaches(l.id, l.passes, 1) ELSE <<>>
    /\ pc' = IF ~inl.ok THEN "done"
             ELSE IF PassAttaches(l.id, l.passes, 1) # <<>> THEN "attach"
             ELSE AfterAttaches(l)
    /\ outcome' = IF inl.ok THEN Running("line") ELSE [ok |-> FALSE, err |-> inl.err, at |-> "inline"]

LineStep ==
    /\ pc = "line"
    /\ li <= MaxGraphLines
    /\ \E l \in GraphLines(li) :
          LineBegun(l, IF IsSome(l.inline) THEN CompileModel(Unwrap(l.inline), child)
                       ELSE Ok(child))
    /\ li' = li + 1
    /\ UNCHANGED rvars
    /\ UNCHANGED <<ast, is_override, vi, child, prior, tried, nattached, applied>>

\* The next self.attach of the loop.
AttachStep ==
    /\ pc = "attach"
    /\ LET r == Attach(child, todo[1].id, todo[1].pass.name, inlined, todo[1].pass.args)
       IN  /\ Called("attach", r, IF Len(todo) > 1 THEN "attach" ELSE AfterAttaches(line))
           /\ nattached' = IF r.ok THEN nattached + 1 ELSE nattached
    /\ tried' = Some(todo[1])
    /\ todo' = Tail(todo)
    /\ inlined' = None
    /\ UNCHANGED <<line, li, applied>>

\* self.adjust_shapes of a line that declares shapes.
AdjustStep ==
    /\ pc = "adjust"
    /\ Called("adjust", AdjustShapes(child, Unwrap(line.shapes)), "line")
    /\ UNCHANGED <<line, li, todo, tried, nattached, inlined, applied>>

\* The lines of the model are compiled: child.finalize().
FinalizeStep ==
    /\ pc = "line"
    /\ li > 1
    /\ Called("finalize", Finalize(child), "done")
    /\ UNCHANGED <<line, li, todo, tried, nattached, inlined, applied>>

NextGraph ==
    \/ LineStep
    \/ AttachStep
    \/ AdjustStep
    \/ FinalizeStep

InitGraph ==
    /\ RootIdle(EmptyMap)
    /\ pc = "line"
    /\ ast = Model("M", FALSE, <<>>, <<>>, <<>>)
    /\ child = GraphStart
    /\ is_override = FALSE
    /\ vi = 2
    /\ li = 1
    /\ prior = GraphStart
    /\ outcome = Running("variable")
    /\ line = GraphLine(0, None, <<>>, None)
    /\ todo = <<>>
    /\ tried = None
    /\ nattached = 0
    /\ inlined = None
    /\ applied = None

SpecGraph == InitGraph /\ [][NextGraph]_vars

\* ------------------------------------------------------------------------
\* The dims of a graph, call by call: adjust_shapes, convert_dim and
\* update_dim applied to a graph that has placeholders and variables
\* ------------------------------------------------------------------------

MaxDimCalls == 3

\* `* N: number of channels = 3`, `* Z: zero = 0`, `#0 Input = Ic, Jc`,
\* `#1 fixed = Oc, Pc`: Ic and Jc are input placeholders, Oc and Pc are
\* local ones, and the state is Fixed(Weak).
DimsWeak ==
    CompileGraph(GraphLine(1, None, OnePass("fixed"),
                           OneShape(<<Semantic("Oc"), Semantic("Pc")>>)),
        CompileGraph(GraphLine(0, None, OnePass("Input"),
                               OneShape(<<Semantic("Ic"), Semantic("Jc")>>)),
            ModelVariable(GraphStart, FALSE,
                          AstVariable("zero", Some("Z"), Some(<<"UInt", 0>>))).g).g).g

\* The same graph after `#2 identity`, in state Fixed(Full).
DimsFull == CompileGraph(GraphLine(2, None, OnePass("identity"), None), DimsWeak).g

DimsStarts == {DimsWeak, DimsFull}

Ph(name, is_input) == DimOfKey(KeyPlaceholder(name, is_input))

\* The dims update_dim is called with as `dim`: dims of the shapes of a node.
ExpectedDims ==
    {Ph("Ic", TRUE), Ph("Jc", TRUE), Ph("Oc", FALSE), Ph("Pc", FALSE),
     DimOfExpr(ExprConst(4)), DimOfExpr(ExprConst(3)),
     DimOfKey(KeyVariable("number of channels"))}

\* The dims update_dim is called with as `ground`: converted declared dims
\* and dims of the incoming shapes.
GroundDims ==
    ExpectedDims \cup {DimOfExpr(ExprConst(0)), DimOfKey(KeyVariable("zero")),
                       DimOfExpr(ExprMul(ExprConst(2), ExprConst(2)))}

\* The declared dims convert_dim is called with.
DeclaredDims ==
    {Expr(Fixed(12), r, "Div") :
        r \in {Fixed(0), Fixed(4), Semantic("N"), Semantic("Z"), Semantic("Ic"),
               Semantic("Oc"), Expr(Semantic("N"), Fixed(3), "Sub")}}
      \cup {Expr(Fixed(12), Semantic("Ic"), "Mul"), Semantic("Qc")}

\* The declared shapes adjust_shapes is called with, by ArgIndex.
DeclaredShapes ==
    {[a \in {0} |-> <<Fixed(4), Fixed(5)>>],
     [a \in {1} |-> <<Fixed(4), Fixed(5)>>],
     [a \in {0, 1} |-> <<Fixed(4), Fixed(5)>>],
     [a \in {0, 2} |-> <<Fixed(4), Fixed(5)>>],
     [a \in {0, 2} |-> <<Semantic("Qc"), Fixed(5)>>],
     [a \in {0, 2} |-> <<Expr(Fixed(12), Fixed(0), "Div"), Fixed(5)>>],
     [a \in {1, 2} |-> <<Expr(Fixed(12), Fixed(0), "Div"), Fixed(5)>>]}

\* The number of calls made so far.
DimCalls == IF applied = None THEN 0 ELSE Unwrap(applied).n

\* A call with the inputs dim and ground returned r, and `next` follows it;
\* an error ends the compilation.
Applied(at, r, next, dim, ground) ==
    /\ Called(at, r, next)
    /\ applied' = Some([n |-> DimCalls + 1, dim |-> dim, ground |-> ground,
                        val |-> IF "val" \in DOMAIN r THEN r.val ELSE None])
    /\ UNCHANGED rvars
    /\ UNCHANGED <<ast, is_override, vi, li, line, todo, tried, nattached, inlined>>

\* A call on the dims of the graph.
DimsCalled(at, r, dim, ground) == Applied(at, r, "dims", dim, ground)

\* The calls of update_variable on the graph once it is used as a
\* sub-model: keyword arguments, by alias, with the type of the value.
KeywordUpdates ==
    {[name |-> None, alias |-> Some(a), value |-> v, ty |-> ValueTypeNew(Some(v), FALSE)] :
        a \in {"N", "Z", "X"}, v \in {<<"UInt", 0>>, <<"UInt", 4>>, <<"Int", 4>>}}

\* self.update_dim(id, arg, dim, ground, axis)
UpdateDimCall ==
    /\ pc = "dims"
    /\ DimCalls < MaxDimCalls
    /\ \E dim \in ExpectedDims, ground \in GroundDims :
          DimsCalled("update_dim", UpdateDim(child, dim, ground), dim, ground)

\* self.convert_dim(dim, arg, &mut is_new_var_created)
ConvertDimCall ==
    /\ pc = "dims"
    /\ DimCalls < MaxDimCalls
    /\ \E d \in DeclaredDims :
          DimsCalled("convert_dim", ConvertDim(child, d, FALSE), d, None)

\* self.adjust_shapes(shapes)
AdjustShapesCall ==
    /\ pc = "dims"
    /\ DimCalls < MaxDimCalls
    /\ \E sh \in DeclaredShapes :
          DimsCalled("adjust_shapes", AdjustShapes(child, sh), sh, None)

\* self.update_variable(name, alias, value, ty) on the graph with dims.
UpdateKeywordCall ==
    /\ pc = "dims"
    /\ DimCalls < MaxDimCalls
    /\ \E u \in KeywordUpdates :
          DimsCalled("update_variable", UpdateVariable(child, u.name, u.alias, u.value, u.ty),
                     u, None)

NextDims ==
    \/ UpdateDimCall
    \/ ConvertDimCall
    \/ AdjustShapesCall
    \/ UpdateKeywordCall

InitDims ==
    /\ RootIdle(EmptyMap)
    /\ pc = "dims"
    /\ ast = Model("M", FALSE, <<>>, <<>>, <<>>)
    /\ child \in DimsStarts
    /\ is_override = FALSE
    /\ vi = 3
    /\ li = 3
    /\ prior = child
    /\ outcome = Running("line")
    /\ line = GraphLine(0, None, <<>>, None)
    /\ todo = <<>>
    /\ tried = None
    /\ nattached = 0
    /\ inlined = None
    /\ applied = None

SpecDims == InitDims /\ [][NextDims]_vars

\* ------------------------------------------------------------------------
\* The variables of a graph, call by call: the declarations of a model, then
\* update_variable and find_var on the declared variables
\* ------------------------------------------------------------------------

MaxVarCalls == 3

\* A declaration flagged is_model.
ModelTyped(v) == [v EXCEPT !.is_model = TRUE]

\* The declarations of a model.
VarDecls ==
    {AstVariable("number of channels", Some("N"), d) :
        d \in {None, Some(<<"UInt", 3>>), Some(<<"UInt", 5>>), Some(<<"Int", 3>>)}}
      \cup {AstVariable("weight", None, Some(<<"UInt", 2>>)),
            AstVariable("flag", None, Some(<<"Bool", TRUE>>))}
      \cup {ModelTyped(AstVariable("kind", None, d)) :
                d \in {None, Some(<<"Model", "Linear">>), Some(<<"UInt", 3>>)}}

\* The calls of update_variable: keyword arguments, by alias, and the
\* variables of an override block, by description and name.
VarUpdates ==
    {[name |-> None, alias |-> Some(a), value |-> v, ty |-> ValueTypeNew(Some(v), FALSE)] :
        a \in {"N", "weight", "kind", "X"},
        v \in {<<"UInt", 7>>, <<"Int", 7>>, <<"Model", "ReLU">>}}
      \cup {[name |-> Some(d), alias |-> Some("N"), value |-> v,
             ty |-> ValueTypeNew(Some(v), FALSE)] :
                d \in {"number of channels", "nope"}, v \in {<<"UInt", 7>>, <<"Int", 7>>}}

\* The names a declared dim refers to.
ExpectNames == {"N", "weight", "kind", "flag"}

\* child.add_variable(Some(name), var) for a declaration of the model.
AddVariableCall ==
    /\ pc = "vars"
    /\ DimCalls < MaxVarCalls
    /\ \E v \in VarDecls :
          Applied("add_variable", ModelVariable(child, FALSE, v), "vars", v, None)

\* update_variable(name, alias, value, ty) on the compiled graph.
UpdateVariableCall ==
    /\ pc \in {"vars", "used"}
    /\ DimCalls < MaxVarCalls
    /\ \E u \in VarUpdates :
          Applied("update_variable", UpdateVariable(child, u.name, u.alias, u.value, u.ty),
                  "used", u, None)

\* find_var(name) for the name of a declared variable: expect_or_default.
ExpectCall ==
    /\ pc \in {"vars", "used"}
    /\ DimCalls < MaxVarCalls
    /\ \E name \in ExpectNames \cap (DOMAIN child.variables \cup DOMAIN child.variable_aliases) :
          Applied("find_var", FindVar(child, name, FALSE), "used", name, None)

NextVars ==
    \/ AddVariableCall
    \/ UpdateVariableCall
    \/ ExpectCall

InitVars ==
    /\ RootIdle(EmptyMap)
    /\ pc = "vars"
    /\ ast = Model("M", FALSE, <<>>, <<>>, <<>>)
    /\ child = NewChild(ParentGraph)
    /\ is_override = FALSE
    /\ vi = 1
    /\ li = 1
    /\ prior = child
    /\ outcome = Running("variable")
    /\ line = GraphLine(0, None, <<>>, None)
    /\ todo = <<>>
    /\ tried = None
    /\ nattached = 0
    /\ inlined = None
    /\ applied = None

SpecVars == InitVars /\ [][NextVars]_vars

\* ------------------------------------------------------------------------
\* The bundles of shapes: validate_args_rank and append applied to two
\* bundles
\* ------------------------------------------------------------------------

MaxArgs == 3

\* The shape of one argument: Dynamic, or Fixed of rank 1 or 2.
ArgShapes ==
    {ShapeDynamic, ShapeFixed(<<DimOfExpr(ExprConst(4))>>),
     ShapeFixed(<<DimOfExpr(ExprConst(4)), DimOfExpr(ExprConst(5))>>)}

\* The bundles: Dynamic, or Fixed with the ArgIndexes 0 .. n - 1.
Bundles ==
    {ShapesDynamic}
      \cup UNION {{ShapesFixed(m) : m \in [0 .. n - 1 -> ArgShapes]} : n \in 0 .. MaxArgs}

\* The bundles index_args leaves: some arguments of a bundle, under the
\* ArgIndexes they had.
IndexedBundles == {IndexArgs(x, S) : x \in Bundles, S \in SUBSET (0 .. MaxArgs - 1)}

\* A call on the bundles a and b returned val.
ShapesCalled(at, r, a, b) ==
    /\ applied' = Some([n |-> 1, dim |-> a, ground |-> b, val |-> r.val])
    /\ outcome' = [ok |-> r.ok, err |-> r.err, at |-> at]
    /\ pc' = "done"
    /\ UNCHANGED rvars
    /\ UNCHANGED <<ast, child, is_override, vi, li, prior, line, todo, tried, nattached, inlined>>

\* shapes.validate_args_rank(&last_shapes, &id)
ValidateArgsRankCall ==
    /\ pc = "bundles"
    /\ \E a \in Bundles, b \in Bundles :
          ShapesCalled("validate_args_rank", ValidateArgsRank(a, b), a, b)

\* a.append(b), b the indexed shapes of an input (get_last_shapes)
AppendCall ==
    /\ pc = "bundles"
    /\ \E a \in Bundles, b \in IndexedBundles :
          ShapesCalled("append", [ok |-> TRUE, err |-> "", val |-> ShapesAppend(a, b)], a, b)

NextShapes ==
    \/ ValidateArgsRankCall
    \/ AppendCall

InitShapes ==
    /\ RootIdle(EmptyMap)
    /\ pc = "bundles"
    /\ ast = Model("M", FALSE, <<>>, <<>>, <<>>)
    /\ child = GraphStart
    /\ is_override = FALSE
    /\ vi = 2
    /\ li = 1
    /\ prior = GraphStart
    /\ outcome = Running("line")
    /\ line = GraphLine(0, None, <<>>, None)
    /\ todo = <<>>
    /\ tried = None
    /\ nattached = 0
    /\ inlined = None
    /\ applied = None

SpecShapes == InitShapes /\ [][NextShapes]_vars

\* ------------------------------------------------------------------------
\* The registry: what the calls guarantee
\* ------------------------------------------------------------------------

\* The names a pending prefab file uses.
UsedBy(pf, name) ==
    IF name \in DOMAIN pf THEN {pf[name].uses[i] : i \in 1 .. Len(pf[name].uses)} ELSE {}

\* The names reached from S along `use` edges that stay inside U.
RECURSIVE UseClosure(_, _, _)
UseClosure(pf, U, S) ==
    LET T == S \cup (UNION {UsedBy(pf, n) : n \in S} \cap U)
    IN  IF T = S THEN S ELSE UseClosure(pf, U, T)

\* name lies on a `use` cycle all of whose models are in U.
OnCycle(pf, U, name) ==
    name \in U /\ name \in UseClosure(pf, U, UsedBy(pf, name) \cap U)

\* Every model reached from name is a pending prefab that is not cached and
\* whose own graph compiles: no error but the cycle itself can arise.
NoOtherError(pf, gs, name) ==
    \A n \in UseClosure(pf, Names, {name}) :
        /\ n \in DOMAIN pf
        /\ n \notin DOMAIN gs
        /\ pf[n].model.graph # BadBody

FindGraphDone == status = "done" /\ call.op = "find_graph"

\* C1 (as amended): find_graph(name, Local) on a model of a `use` cycle of
\* pending prefabs none of which is in the compiled cache never returns a
\* graph, and returns RecursiveUsage where no other error can arise first.
C1_RecursionGuard ==
    (FindGraphDone /\ OnCycle(call.prefabs0, DOMAIN call.prefabs0 \ DOMAIN call.graphs0, call.name))
        => /\ ~result.ok
           /\ NoOtherError(call.prefabs0, call.graphs0, call.name) => result.err = "RecursiveUsage"

\* C1 witness: a call on a model of a two-model cycle has ended in
\* RecursiveUsage.
C1_Witness ==
    /\ FindGraphDone
    /\ OnCycle(call.prefabs0, DOMAIN call.prefabs0 \ DOMAIN call.graphs0, call.name)
    /\ call.name \notin UsedBy(call.prefabs0, call.name)
    /\ result.err = "RecursiveUsage"

\* C1 as stated: find_graph on a model of a cycle of pending prefabs never
\* returns a graph. A graph cached under the name of a model of the cycle by
\* compile_from_source refutes it.
C1_AsStated ==
    (FindGraphDone /\ OnCycle(call.prefabs0, DOMAIN call.prefabs0, call.name)) => ~result.ok

\* C2: whenever no find_graph call is in progress the compiling set is
\* empty. load_graph leaves through `?` before compiling.remove, so a failed
\* load refutes it.
C2_GuardReleased == status # "running" => compiling = {}

\* C3 (as amended): after a find_graph(name) that succeeds the name is cached
\* with the returned graph; when the call loaded the model the name is in
\* neither prefabs nor compiling; when the name was cached the call returns
\* the graph cached at that time and changes none of graphs, compiling and
\* prefabs.
C3_RegistryCache ==
    (FindGraphDone /\ result.ok)
        => /\ call.name \in DOMAIN graphs
           /\ graphs[call.name] = Unwrap(result.graph)
           /\ call.name \notin DOMAIN call.graphs0
                => call.name \notin DOMAIN prefabs /\ call.name \notin compiling
           /\ call.name \in DOMAIN call.graphs0
                => /\ Unwrap(result.graph) = call.graphs0[call.name]
                   /\ graphs = call.graphs0
                   /\ compiling = call.compiling0
                   /\ prefabs = call.prefabs0

\* C3 witness: a find_graph that loaded a prefab is followed by a find_graph
\* of the same name that is served from the cache.
C3_Witness ==
    /\ FindGraphDone
    /\ result.ok
    /\ call.name \in DOMAIN call.graphs0
    /\ prev.op = "find_graph"
    /\ prev.name = call.name
    /\ prev.result = result

\* C3 as stated: after any find_graph(name) that succeeds the name is in
\* neither prefabs nor compiling. A graph cached by compile_from_source over
\* a pending prefab of the same name refutes it.
C3_AsStated ==
    (FindGraphDone /\ result.ok)
        => /\ call.name \in DOMAIN graphs
           /\ call.name \notin DOMAIN prefabs
           /\ call.name \notin compiling

SourceThenFind ==
    /\ FindGraphDone
    /\ prev.op = "compile_from_source"
    /\ prev.result.ok
    /\ prev.name = call.name

\* C4: a find_graph(M, Local) that follows a successful compile_from_source
\* of a model named M succeeds and returns the graph compile_from_source
\* returned, whether or not a prefab named M is pending.
C4_SourceCached == SourceThenFind => result.ok /\ result.graph = prev.result.graph

\* C4 witness: the find_graph returned the graph of the source while a prefab
\* of the same name, with another graph, is still pending.
C4_Witness ==
    /\ SourceThenFind
    /\ result.ok
    /\ call.name \in DOMAIN prefabs
    /\ prefabs[call.name].model.graph = GoodBody(NameDim(call.name))

\* The `use` chain of the source of the call leads back to the name of its
\* model through pending prefabs, with no model of the chain in the cache.
ChainBackToSource ==
    LET U == DOMAIN call.prefabs0 \ DOMAIN call.graphs0
        first == {call.uses[i] : i \in 1 .. Len(call.uses)}
    IN  /\ call.name \notin DOMAIN call.graphs0
        /\ call.name \in first \cup UNION {UsedBy(call.prefabs0, n) :
                                             n \in UseClosure(call.prefabs0, U, first \cap U)}

\* C5: a compile_from_source of a model M whose `use` chain leads back to
\* the name M does not return a graph. compile_from_source never inserts M
\* into compiling: with a prefab named M pending, the chain loads that
\* prefab and the call returns a graph.
C5_SourceGuarded ==
    (status = "done" /\ call.op = "compile_from_source" /\ ChainBackToSource) => ~result.ok

\* ------------------------------------------------------------------------
\* The elaborator: what a compiled model guarantees
\* ------------------------------------------------------------------------

\* The model is neither extern nor an override block.
Fresh == ~ast.is_extern /\ ~is_override

\* The compilation returned Ok.
Compiled == pc = "done" /\ outcome.ok

C7_ShapesDefined == (Compiled /\ Fresh) => ShapesDefined(child)

\* C8: get_shapes() of a successfully compiled model that is neither extern
\* nor an override, all of whose variables have a UInt value, yields only
\* Expr dims. A dim declared by the name of a declared variable is stored as
\* Key(Variable) and eval_dim_for_output returns it as it is.
C8_OnlyExprDims ==
    (/\ Compiled /\ Fresh /\ ShapesDefined(child)
     /\ \A v \in DOMAIN ast.variables : ast.variables[v].default = Some(<<"UInt", 3>>))
        => \A id \in DOMAIN child.nodes :
             \A i \in DOMAIN GetShapes(child)[id] :
               \A k \in DOMAIN GetShapes(child)[id][i] :
                 GetShapes(child)[id][i][k][1] = "Expr"

\* adjust_shapes of line li - 1 has just returned Ok.
Adjusted == outcome.at = "shapes" /\ outcome.err = ""

\* The stored dim is the declared dim d: a constant as Expr(c), a name as
\* the key of that placeholder or of a declared variable, an expression as
\* an Expr.
Declares(g, d, dim) ==
    IF d[1] = "Fixed" THEN dim = DimOfExpr(ExprConst(d[2]))
    ELSE IF d[1] = "Semantic"
    THEN /\ dim[1] = "Key"
         /\ IF dim[2][1] = "Placeholder" THEN dim[2][2] = d[2]
            ELSE dim[2][2] \in DOMAIN g.variables
    ELSE dim[1] = "Expr"

\* C9: when adjust_shapes succeeds the last node stores the declared shapes,
\* dim by dim and in Transform state too, every other node is unchanged,
\* and a line declared `= c` reports [[Expr(c)]] as its get_shapes() entry.
C9_AdjustShapes ==
    Adjusted =>
        LET declared == Unwrap(ast.graph[li - 1].shapes)
            id == LastId(child.nodes)
            stored == child.nodes[id].shapes
        IN  /\ DOMAIN child.nodes = DOMAIN prior.nodes
            /\ \A other \in DOMAIN child.nodes \ {id} : child.nodes[other] = prior.nodes[other]
            /\ stored[1] = "Fixed"
            /\ DOMAIN stored[2] = DOMAIN declared
            /\ \A a \in DOMAIN declared :
                 /\ stored[2][a][1] = "Fixed"
                 /\ Len(stored[2][a][2]) = Len(declared[a])
                 /\ \A i \in 1 .. Len(declared[a]) :
                      Declares(child, declared[a][i], stored[2][a][2][i])
            /\ \A c \in 0 .. 12 :
                 declared = [a \in {0} |-> <<Fixed(c)>>]
                     => GetShapes(child)[id] = << <<DimOfExpr(ExprConst(c))>> >>

\* C9 witness: adjust_shapes has succeeded in Transform state on a line
\* that declares two dims, with another node before it.
C9_Witness ==
    /\ Adjusted
    /\ prior.shape_state = "Transform"
    /\ Len(Unwrap(ast.graph[li - 1].shapes)[0]) = 2
    /\ Cardinality(DOMAIN child.nodes) >= 2

\* The lines a compiled graph was built from: an override block returns the
\* graph of the model it overrides.
LinesOf(m) ==
    IF is_override
    THEN (CHOOSE e \in {Library[i] : i \in 1 .. Len(Library)} : e.name = m.name).graph
    ELSE m.graph

\* The sum of the repeat counts of passes.
RECURSIVE SumRepeats(_)
SumRepeats(passes) ==
    IF passes = <<>> THEN 0 ELSE passes[1].repeat + SumRepeats(Tail(passes))

\* The sum over lines of the repeat counts of their passes.
RECURSIVE SumLines(_)
SumLines(lines) ==
    IF lines = <<>> THEN 0 ELSE SumRepeats(lines[1].passes) + SumLines(Tail(lines))

\* (line id, pass index, repeat index) of every repetition of every pass.
ExpectedIds(lines) ==
    UNION {UNION {{<<lines[l].id, p - 1, r - 1>> : r \in 1 .. lines[l].passes[p].repeat} :
                  p \in DOMAIN lines[l].passes} :
           l \in DOMAIN lines}

\* C10: a successfully compiled graph has as many nodes as the repeat
\* counts of the passes of its lines add up to, an inline model being one
\* node, under the ids (line id, pass index, repeat index).
C10_NodeCount ==
    Compiled =>
        /\ Cardinality(DOMAIN child.nodes) = SumLines(LinesOf(ast))
        /\ DOMAIN child.nodes = ExpectedIds(LinesOf(ast))
        /\ ShapesDefined(child) => DOMAIN GetShapes(child) = DOMAIN child.nodes

\* C10 witness: a model with an inline sub-model and a pass repeated twice
\* has compiled to four nodes.
C10_Witness ==
    /\ Compiled
    /\ \E l \in DOMAIN ast.graph : IsSome(ast.graph[l].inline)
    /\ \E l \in DOMAIN ast.graph : ast.graph[l].passes[1].repeat = 2
    /\ Cardinality(DOMAIN child.nodes) = 4

\* The model is a block named after a graph registered in its parent.
Override == ~ast.is_extern /\ ast.name \in DOMAIN ParentGraph.graphs

\* The declared variables without a value.
Valueless == {i \in DOMAIN ast.variables : ast.variables[i].default = None}

\* The override block has neither children nor graph lines.
BareOverride == Override /\ ast.children = <<>> /\ ast.graph = <<>>

\* C11 (as amended): an override block fails with OverrideChild if it has
\* children, else with OverrideGraph if it has a graph line; else its
\* variables are applied in order to a copy of the registered graph, and
\* the block fails with NoVariableValue at the first variable without a
\* value unless update_variable failed on a variable before it; when every
\* update succeeds the copy is returned unfinalized: same nodes, state and
\* sub-graphs, the declared values stored, the other variables as imported.
C11_OverridePath ==
    (pc = "done" /\ Override)
        => IF ast.children # <<>> THEN outcome.err = "OverrideChild"
           ELSE IF ast.graph # <<>> THEN outcome.err = "OverrideGraph"
           ELSE /\ Valueless # {}
                   => /\ ~outcome.ok
                      /\ outcome.at = "variable"
                      /\ \A i \in Valueless : vi - 1 <= i
                      /\ vi - 1 \in Valueless <=> outcome.err = "NoVariableValue"
                /\ outcome.ok
                   => LET registered == ParentGraph.graphs[ast.name]
                          named == {ast.variables[i].description : i \in DOMAIN ast.variables}
                      IN  /\ outcome.at = "end"
                          /\ child.nodes = registered.nodes
                          /\ child.shape_state = registered.shape_state
                          /\ child.graphs = registered.graphs
                          /\ child.is_extern = registered.is_extern
                          /\ DOMAIN child.variables = DOMAIN registered.variables
                          /\ \A i \in DOMAIN ast.variables :
                               child.variables[ast.variables[i].description].value
                                   = ast.variables[i].default
                          /\ \A n \in DOMAIN child.variables \ named :
                               child.variables[n] = registered.variables[n]

\* C11 witness: a block that overrides one of the two variables of Scale
\* has compiled.
C11_Witness ==
    /\ pc = "done"
    /\ BareOverride
    /\ outcome.ok
    /\ ast.name = "Scale"
    /\ ast.variables # <<>>
    /\ child.variables["weight"].value = Some(<<"UInt", 3>>)
    /\ child.variables["bias"].value = Some(<<"UInt", 1>>)

\* C11 as stated: an override block without children and graph lines that
\* declares a variable without a value fails with NoVariableValue. A
\* variable before it on which update_variable fails refutes it.
C11_AsStated ==
    (pc = "done" /\ BareOverride /\ Valueless # {}) => outcome.err = "NoVariableValue"

\* The nodes of the model under compilation that refer to Scale.
ScaleNodes == {id \in DOMAIN child.nodes : child.nodes[id].name = "Scale"}

\* C12: in a model whose child block overrides `weight` of the imported
\* Scale with UInt 3, every node that refers to Scale carries a sub-graph in
\* which weight has that value and type and bias has the imported value.
C12_OverrideUsed ==
    (pc # "idle" /\ ast.children = <<ScaleOverride>>)
        => \A id \in ScaleNodes :
             /\ IsSome(child.nodes[id].graph)
             /\ Unwrap(child.nodes[id].graph).variables["weight"]
                  = [description |-> "weight", ty |-> "UInt", value |-> Some(<<"UInt", 3>>)]
             /\ Unwrap(child.nodes[id].graph).variables["bias"]
                  = ParentGraph.graphs["Scale"].variables["bias"]

\* C12 witness: a model with the override block has compiled with a node
\* that refers to Scale after `#0 Input = 4`, and reports 4 * 3 for it.
C12_Witness ==
    /\ Compiled
    /\ ast.children = <<ScaleOverride>>
    /\ \E id \in ScaleNodes : GetShapes(child)[id] = << <<DimOfExpr(ExprConst(12))>> >>

\* C14: an extern model with a child fails with UnexpectedChild, one
\* without children whose graph has not exactly two lines fails with
\* UnknownGraph; an accepted one fails only in its variables or lines, and
\* once they are processed it is returned as it stands, marked is_extern,
\* with the declared variables and the nodes of both lines, in whatever
\* state the second line left.
C14_ExternModel ==
    (pc = "done" /\ ast.is_extern)
        => IF ast.children # <<>>
           THEN outcome.err = "UnexpectedChild" /\ outcome.at = "begin"
           ELSE IF Len(ast.graph) # 2
           THEN outcome.err = "UnknownGraph" /\ outcome.at = "begin"
           ELSE /\ outcome.at \in {"variable", "passes", "shapes", "end"}
                /\ outcome.at = "end" <=> outcome.ok
                /\ outcome.ok
                   => /\ child = prior
                      /\ child.is_extern
                      /\ DOMAIN child.nodes = ExpectedIds(ast.graph)
                      /\ \A i \in DOMAIN ast.variables :
                           ast.variables[i].description \in DOMAIN child.variables

\* C14 witness: an extern model has compiled in a state other than
\* Fixed(Full).
C14_Witness ==
    /\ Compiled
    /\ ast.is_extern
    /\ child.is_extern
    /\ child.shape_state = "FixedWeak"
    /\ DOMAIN child.nodes = {<<0, 0, 0>>, <<1, 0, 0>>}

\* The nodes of the graph a call returned that call the import n with a
\* sub-graph other than the graph the registry holds for n.
Diverged(n) ==
    {id \in DOMAIN Unwrap(result.graph).nodes :
        LET node == Unwrap(result.graph).nodes[id]
        IN  node.name = n /\ IsSome(node.graph) /\ Unwrap(node.graph) # graphs[n]}

FirstAttach == outcome.at = "attach" /\ prior.nodes = EmptyMap

\* C16: attach on a graph without nodes succeeds only with the id (0,0,0);
\* with any other id it fails with FirstNodeNotFound and leaves the graph as
\* it was, without nodes and in the same shape state.
C16_FirstNodeRule ==
    FirstAttach
        => IF Unwrap(tried).id = NewInput
           THEN /\ outcome.err # "FirstNodeNotFound"
                /\ outcome.ok => DOMAIN child.nodes = {NewInput}
           ELSE /\ outcome.err = "FirstNodeNotFound"
                /\ child = prior

\* C16 witness: the first attach of a graph was made with the id (0,1,0)
\* and failed.
C16_Witness ==
    /\ FirstAttach
    /\ Unwrap(tried).id = <<0, 1, 0>>
    /\ outcome.err = "FirstNodeNotFound"
    /\ child.nodes = EmptyMap

\* The ids the sequencing rule names after the last id L.
Successors(L) == {<<L[1], L[2], L[3] + 1>>, <<L[1], L[2] + 1, 0>>, <<L[1] + 1, 0, 0>>}

\* C17: on a graph whose last id is L, attach is accepted only for the
\* three successors of L; every other id fails with UnvalidNodeId and adds
\* no node.
C17_SequencingRule ==
    (outcome.at = "attach" /\ prior.nodes # EmptyMap)
        => IF Unwrap(tried).id \in Successors(LastId(prior.nodes))
           THEN outcome.err # "UnvalidNodeId"
           ELSE outcome.err = "UnvalidNodeId" /\ child.nodes = prior.nodes

\* C18: a graph with nodes has (0,0,0) as its smallest id; a successful
\* attach adds one node under an id greater than every id present and
\* leaves the other nodes in place, with their names, inputs and sub-graphs;
\* the number of nodes is the number of successful attaches.
C18_NodeOrder ==
    /\ child.nodes # EmptyMap => FirstId(child.nodes) = NewInput
    /\ Cardinality(DOMAIN child.nodes) = nattached
    /\ (outcome.at = "attach" /\ outcome.ok)
          => /\ \A b \in DOMAIN prior.nodes : IdLess(b, Unwrap(tried).id)
             /\ DOMAIN child.nodes = DOMAIN prior.nodes \cup {Unwrap(tried).id}
             /\ \A b \in DOMAIN prior.nodes :
                  /\ child.nodes[b].name = prior.nodes[b].name
                  /\ child.nodes[b].inputs = prior.nodes[b].inputs
                  /\ child.nodes[b].graph = prior.nodes[b].graph

\* C18 witness: three attaches succeeded, the last under an id that the
\* line does not start at pass 0.
C18_Witness ==
    /\ outcome.at = "attach"
    /\ outcome.ok
    /\ nattached = 3
    /\ Unwrap(tried).id[2] = 1
    /\ LastId(prior.nodes)[1] < Unwrap(tried).id[1]

\* The placeholders of the keys.
Placeholders(keys) == {k \in DOMAIN keys.table : k[1] = "Placeholder"}

\* adjust_shapes was called with the one declared dim `name` on a graph with
\* nodes.
Declared(name) ==
    /\ outcome.at = "adjust"
    /\ prior.nodes # EmptyMap
    /\ line.shapes = OneShape(<<Semantic(name)>>)

\* The name is a placeholder of the graph, a variable or an alias.
Known(g, name) ==
    \/ \E k \in Placeholders(g.keys) : k[2] = name
    \/ name \in DOMAIN g.variables
    \/ name \in DOMAIN g.variable_aliases

C20_AdjustState ==
    outcome.at = "adjust"
        => IF outcome.ok
           THEN child.shape_state =
                    IF Declared("Oc") /\ ~Known(prior, "Oc") THEN "FixedWeak" ELSE "FixedFull"
           ELSE child.shape_state = prior.shape_state

\* C20 witness: adjust_shapes succeeded in state Required(Weak) on `= Oc`
\* with Oc known, and the state is Fixed(Full).
C20_Witness ==
    /\ outcome.at = "adjust"
    /\ outcome.ok
    /\ prior.shape_state = "RequiredWeak"
    /\ Declared("Oc")
    /\ Known(prior, "Oc")
    /\ child.shape_state = "FixedFull"

\* attach(id, name, ...) was called and the id passed the first-node and the
\* sequencing rule.
Attached(names) ==
    /\ outcome.at = "attach"
    /\ Unwrap(tried).pass.name \in names
    /\ outcome.err \notin {"FirstNodeNotFound", "UnvalidNodeId"}

\* The node the last attach inserted.
NewNode == child.nodes[Unwrap(tried).id]

TransformArg(v) == << <<"Keyword", "transform", v>> >>

\* C21: `dynamic` with transform = true sets the state Transform from any
\* state; without transform or with transform = false it is accepted on a
\* graph without nodes only, setting Required(Full), and fails otherwise
\* with FullShapeRequired, the graph unchanged; a transform that is not a
\* bool fails with DifferentVariableType.
C21_Dynamic ==
    Attached({"dynamic"})
        => LET args == Unwrap(tried).pass.args
           IN  /\ args = TransformArg(<<"Bool", TRUE>>)
                     => outcome.ok /\ child.shape_state = "Transform"
                                   /\ DOMAIN child.nodes = DOMAIN prior.nodes \cup {Unwrap(tried).id}
               /\ args \in {<<>>, TransformArg(<<"Bool", FALSE>>)}
                     => IF prior.nodes = EmptyMap
                        THEN outcome.ok /\ child.shape_state = "RequiredFull"
                        ELSE outcome.err = "FullShapeRequired" /\ child = prior
               /\ args = TransformArg(<<"UInt", 1>>)
                     => outcome.err = "DifferentVariableType" /\ child = prior

\* C21 witness: `dynamic (transform = true)` was attached after other
\* nodes in a state other than Transform.
C21_Witness ==
    /\ Attached({"dynamic"})
    /\ Unwrap(tried).pass.args = TransformArg(<<"Bool", TRUE>>)
    /\ prior.nodes # EmptyMap
    /\ prior.shape_state = "FixedFull"
    /\ child.shape_state = "Transform"

\* C22: `fixed` in a state Fixed or Required sets the state Required(Weak)
\* and records a node with Dynamic shapes and no sub-graph; in state
\* Transform it fails with ShapeNotDefined, and state and nodes stay.
C22_Fixed ==
    Attached({"fixed"})
        => IF prior.shape_state = "Transform"
           THEN outcome.err = "ShapeNotDefined" /\ child = prior
           ELSE /\ outcome.ok
                /\ child.shape_state = "RequiredWeak"
                /\ NewNode.shapes = ShapesDynamic
                /\ NewNode.graph = None
                /\ NewNode.name = "fixed"

\* C22 witness: `fixed` failed in state Transform.
C22_Witness ==
    /\ Attached({"fixed"})
    /\ prior.shape_state = "Transform"
    /\ outcome.err = "ShapeNotDefined"

\* C23: `identity` on a graph without nodes fails with InputNodeNotFound;
\* otherwise the new node has the shapes of the node before it, and the
\* state is as before except that Fixed(Weak) becomes Fixed(Full).
C23_Identity ==
    Attached({"identity"})
        => IF prior.nodes = EmptyMap
           THEN outcome.err = "InputNodeNotFound"
           ELSE /\ outcome.ok
                /\ NewNode.shapes = prior.nodes[LastId(prior.nodes)].shapes
                /\ child.shape_state = IF prior.shape_state = "FixedWeak" THEN "FixedFull"
                                       ELSE prior.shape_state

\* The last attach was the call of a sub-model, inline or by name.
SubModelAttach ==
    /\ Attached({"Linear", "ReLU", "Inner"})
    /\ Unwrap(tried).id # NewInput

\* C24: after a successful attach of a sub-model the state of the caller
\* is the state of the sub-graph copy the node carries, whatever it was;
\* after a failed one the state and the nodes of the caller are as before.
C24_InheritState ==
    SubModelAttach
        => IF outcome.ok
           THEN /\ IsSome(NewNode.graph)
                /\ child.shape_state = Unwrap(NewNode.graph).shape_state
           ELSE child.shape_state = prior.shape_state /\ child.nodes = prior.nodes

\* C24 witness: an inline model was attached in state Transform and left
\* the caller in another state.
C24_Witness ==
    /\ SubModelAttach
    /\ outcome.ok
    /\ Unwrap(tried).pass.name = "Inner"
    /\ prior.shape_state = "Transform"
    /\ child.shape_state # "Transform"

\* adjust_shapes was called on the declared shapes, a map from ArgIndex to
\* dims.
AdjustCalled == outcome.at = "adjust_shapes"

\* The k-th declared argument has the ArgIndex k, for every k.
InArgOrder(sh) == DOMAIN sh = 0 .. (Cardinality(DOMAIN sh) - 1)

\* The declared arguments before the first one that is out of place.
ArgsInPlace(sh) == {a \in DOMAIN sh : 0 .. a \subseteq DOMAIN sh}

LastNode(g) == g.nodes[LastId(g.nodes)]

\* The statement of C25 as the spec words it: declared shapes whose
\* arguments are out of place always fail with UnvalidNodeArg.
C25_AsStated ==
    AdjustCalled
        => /\ outcome.ok => InArgOrder(Unwrap(applied).dim)
           /\ ~InArgOrder(Unwrap(applied).dim)
                 => /\ outcome.err = "UnvalidNodeArg"
                    /\ LastNode(child).shapes = LastNode(prior).shapes
                    /\ child.shape_state = prior.shape_state

\* C25: adjust_shapes accepts declared shapes only if the k-th declared
\* argument has the ArgIndex k; otherwise it fails and leaves the shapes of
\* the last node and the shape state as they were, with UnvalidNodeArg if
\* the arguments before the misplaced one convert, and with the error of
\* their conversion if they do not.
C25_ArgOrder ==
    AdjustCalled
        => LET sh == Unwrap(applied).dim
               before == ConvertShapes(prior, sh, SortedNats(ArgsInPlace(sh)), 0, FALSE, EmptyMap)
           IN  /\ outcome.ok => InArgOrder(sh)
               /\ ~InArgOrder(sh)
                     => /\ outcome.err = IF before.ok THEN "UnvalidNodeArg" ELSE before.err
                        /\ LastNode(child).shapes = LastNode(prior).shapes
                        /\ child.shape_state = prior.shape_state

\* C25 witness: shapes declared for the arguments 0 and 2 failed with
\* UnvalidNodeArg after the dims of argument 0 were converted and a
\* placeholder was coined for them.
C25_Witness ==
    /\ AdjustCalled
    /\ DOMAIN Unwrap(applied).dim = {0, 2}
    /\ outcome.err = "UnvalidNodeArg"
    /\ Known(child, "Qc")
    /\ ~Known(prior, "Qc")

\* convert_dim was called on a declared quotient `lhs / rhs` whose two sides
\* convert.
QuotientConverted ==
    /\ outcome.at = "convert_dim"
    /\ Unwrap(applied).dim[1] = "Expr"
    /\ Unwrap(applied).dim[4] = "Div"
    /\ ConvertDim(prior, Unwrap(applied).dim[3], FALSE).ok

\* The converted right-hand side of the quotient, and its value under the
\* bindings of the graph.
Divisor == ConvertDim(prior, Unwrap(applied).dim[3], FALSE).val

DivisorValue == KeysEvalOnce(prior.keys, DimToExpr(Divisor))

\* C26: the conversion of `lhs / rhs` fails with DivideByZero whenever rhs
\* is 0 under the bindings of the graph, be it a literal, a variable or a
\* bound placeholder, and returns the quotient otherwise.
C26_Division ==
    QuotientConverted
        => IF ExprIsZero(DivisorValue)
           THEN outcome.err = "DivideByZero"
           ELSE /\ outcome.ok
                /\ Unwrap(applied).val = DimOfExpr(ExprDiv(ExprConst(12), DimToExpr(Divisor)))

\* adjust_shapes of line li - 1 has just returned, called in state Transform
\* on a last node with Fixed shapes, with shapes declared for argument 0
\* whose dims convert.
Reshaped ==
    /\ outcome.at = "shapes"
    /\ li > 1
    /\ IsSome(ast.graph[li - 1].shapes)
    /\ prior.shape_state = "Transform"
    /\ prior.nodes # EmptyMap
    /\ LastNode(prior).shapes[1] = "Fixed"
    /\ DOMAIN LastNode(prior).shapes[2] = {0}
    /\ DOMAIN Unwrap(ast.graph[li - 1].shapes) = {0}
    /\ ConvertDims(prior, Unwrap(ast.graph[li - 1].shapes)[0], FALSE, <<>>).ok

\* The dims of argument 0 of the last node before the call, and the
\* declared ones.
LastDims == LastNode(prior).shapes[2][0][2]

DeclaredAs == ConvertDims(prior, Unwrap(ast.graph[li - 1].shapes)[0], FALSE, <<>>).val

\* The product of the dims under the bindings of the graph.
ProductValue(g, dims) == KeysEvalOnce(g.keys, DimsProduct(dims))

\* C27: in state Transform, on a last node with Fixed shapes, adjust_shapes
\* compares the product of the dims of each argument: it succeeds when the
\* products are equal, whatever the ranks, and stores the declared shapes,
\* and it fails with DifferentDimension when the products differ.
C27_Reshape ==
    Reshaped
        => IF ExprEq(ProductValue(prior, LastDims), ProductValue(prior, DeclaredAs))
           THEN /\ outcome.err = ""
                /\ LastNode(child).shapes = ShapesFixed([a \in {0} |-> ShapeFixed(DeclaredAs)])
           ELSE outcome.err = "DifferentDimension"

\* C27 witness: a last node of rank 2 was reshaped to rank 1.
C27_Witness ==
    /\ Reshaped
    /\ outcome.err = ""
    /\ Len(LastDims) = 2
    /\ Len(DeclaredAs) = 1

\* update_dim(dim, ground) was called; Expected is its dim.
UpdateCalled == outcome.at = "update_dim"

Expected == Unwrap(applied).dim

Ground == Unwrap(applied).ground

\* The placeholder has no binding in g, or only the one to its own symbol.
Unbound(g, key) ==
    key \in DOMAIN g.keys.table => ExprEq(g.keys.table[key], DimKeyToExpr(key))

\* The placeholder is bound in g to the expression e.
BoundTo(g, key, e) == key \in DOMAIN g.keys.table /\ ExprEq(g.keys.table[key], e)

\* The bindings of g and h differ at most in the binding of key.
SameBindingsBut(g, h, key) ==
    /\ DOMAIN g.keys.table \cup {key} = DOMAIN h.keys.table \cup {key}
    /\ \A k \in DOMAIN g.keys.table \ {key} : g.keys.table[k] = h.keys.table[k]

\* C28: update_dim of a placeholder P against a ground that is not a
\* placeholder binds P to the expression of the ground and returns
\* Expr(ground) if P is unbound or bound to that expression already; if P
\* is bound to another expression it fails with DifferentDimension and the
\* bindings are as before.
C28_BindGround ==
    (UpdateCalled /\ IsPlaceholderDim(Expected) /\ ~IsPlaceholderDim(Ground))
        => IF Unbound(prior, Expected[2]) \/ BoundTo(prior, Expected[2], DimToExpr(Ground))
           THEN /\ outcome.ok
                /\ Unwrap(applied).val = DimOfExpr(DimToExpr(Ground))
                /\ child.keys.table[Expected[2]] = DimToExpr(Ground)
                /\ SameBindingsBut(prior, child, Expected[2])
           ELSE /\ outcome.err = "DifferentDimension"
                /\ child.keys = prior.keys

\* C28 witness: a placeholder bound to 4 was unified with the ground 2 * 2.
C28_Witness ==
    /\ UpdateCalled
    /\ IsPlaceholderDim(Expected)
    /\ Ground = DimOfExpr(ExprMul(ExprConst(2), ExprConst(2)))
    /\ ~Unbound(prior, Expected[2])
    /\ outcome.ok
    /\ child.keys.table[Expected[2]] = ExprConst(4)

\* C29: update_dim of a placeholder P against a placeholder G, when P is
\* unbound or bound to G already: for the same name it returns G and binds
\* nothing; for different names it binds P to the symbol of G if both are
\* input placeholders, and fails with CannotEstimateShape, the bindings as
\* before, if one of them is local.
C29_BindPlaceholder ==
    (/\ UpdateCalled /\ IsPlaceholderDim(Expected) /\ IsPlaceholderDim(Ground)
     /\ Unbound(prior, Expected[2]) \/ BoundTo(prior, Expected[2], DimToExpr(Ground)))
        => IF Expected[2][2] = Ground[2][2]
           THEN /\ outcome.ok
                /\ Unwrap(applied).val = Ground
                /\ child.keys = prior.keys
           ELSE IF Expected[2][3] /\ Ground[2][3]
           THEN /\ outcome.ok
                /\ Unwrap(applied).val = DimOfExpr(DimKeyToExpr(Ground[2]))
                /\ child.keys.table[Expected[2]] = DimKeyToExpr(Ground[2])
                /\ SameBindingsBut(prior, child, Expected[2])
           ELSE /\ outcome.err = "CannotEstimateShape"
                /\ child.keys = prior.keys

\* C29 witness: the input placeholder Ic was bound to the symbol of the
\* input placeholder Jc, itself bound to a constant before.
C29_Witness ==
    /\ UpdateCalled
    /\ Expected = Ph("Ic", TRUE)
    /\ Ground = Ph("Jc", TRUE)
    /\ ~Unbound(prior, Ground[2])
    /\ outcome.ok
    /\ child.keys.table[Expected[2]] = DimKeyToExpr(Ground[2])

\* The dim under the bindings of g.
DimValue(g, d) == KeysEvalOnce(g.keys, DimToExpr(d))

\* C30: update_dim of a dim that is not a placeholder evaluates the dim and
\* the ground under the bindings; it returns Ok(ground) if the two are
\* equal and fails with DifferentDimension if not, and the bindings are as
\* before in both cases.
C30_Compare ==
    (UpdateCalled /\ ~IsPlaceholderDim(Expected))
        => /\ child.keys = prior.keys
           /\ IF ExprEq(DimValue(prior, Expected), DimValue(prior, Ground))
              THEN outcome.ok /\ Unwrap(applied).val = Ground
              ELSE outcome.err = "DifferentDimension"

\* The placeholders of g that are bound to an expression other than their
\* own symbol.
BoundPlaceholders(g) == {k \in Placeholders(g.keys) : ~Unbound(g, k)}

\* C31: once a placeholder is bound to an expression other than its own
\* symbol, no successful find_var, update_dim, update_variable or
\* adjust_shapes changes the binding to another expression; a unification
\* with another expression is rejected with DifferentDimension.
C31_BindingMonotone ==
    /\ outcome.ok
          => \A k \in BoundPlaceholders(prior) : BoundTo(child, k, prior.keys.table[k])
    /\ (/\ UpdateCalled /\ IsPlaceholderDim(Expected)
        /\ Expected[2] \in BoundPlaceholders(prior)
        /\ ~ExprEq(prior.keys.table[Expected[2]], DimToExpr(Ground)))
          => outcome.err = "DifferentDimension" /\ child.keys = prior.keys

\* C31 witness: a bound placeholder was unified again, with the expression
\* it is bound to, after update_variable changed a variable.
C31_Witness ==
    /\ UpdateCalled
    /\ IsPlaceholderDim(Expected)
    /\ Expected[2] \in BoundPlaceholders(prior)
    /\ outcome.ok
    /\ DimCalls = 3
    /\ prior.variables["number of channels"].value = Some(<<"UInt", 4>>)

\* update_variable(name, alias, value, ty) was called.
VariableUpdated == outcome.at = "update_variable"

\* The variable the call names: the name if one is given, else the
\* description the alias stands for, else the alias itself.
Target(g, u) ==
    IF IsSome(u.name) THEN Unwrap(u.name)
    ELSE IF Unwrap(u.alias) \in DOMAIN g.variable_aliases
    THEN g.variable_aliases[Unwrap(u.alias)]
    ELSE Unwrap(u.alias)

\* C32: update_variable succeeds iff the target variable exists and its
\* type is the incoming type or Required, and then its value and type are
\* the incoming ones; it fails with DifferentVariableType on another type
\* and with NoSuchVariable on an unknown target, and a failure leaves the
\* variables, the aliases and the key-bindings as they were.
C32_UpdateVariable ==
    VariableUpdated
        => LET u == Unwrap(applied).dim
               target == Target(prior, u)
           IN  IF target \notin DOMAIN prior.variables
               THEN /\ outcome.err = "NoSuchVariable"
                    /\ child = prior
               ELSE IF prior.variables[target].ty \in {u.ty, "Required"}
               THEN /\ outcome.ok
                    /\ child.variables[target].value = Some(u.value)
                    /\ child.variables[target].ty = u.ty
                    /\ \A d \in DOMAIN prior.variables \ {target} :
                          child.variables[d] = prior.variables[d]
               ELSE /\ outcome.err = "DifferentVariableType"
                    /\ child = prior

\* C32 witness: a keyword argument gave a value to a variable declared
\* without one, found by its alias.
C32_Witness ==
    /\ VariableUpdated
    /\ Unwrap(applied).dim.name = None
    /\ Unwrap(applied).dim.alias = Some("N")
    /\ "number of channels" \in DOMAIN prior.variables
    /\ prior.variables["number of channels"].ty = "Required"
    /\ outcome.ok
    /\ child.variables["number of channels"].ty = "UInt"

\* No call on the variables has failed.
VarsSucceeded == applied = None \/ outcome.ok

\* C33: as long as add_variable and update_variable succeed, the
\* key-bindings map the key of every variable whose value is UInt(n) to n,
\* the latest value, and a dim that is this key evaluates to n.
C33_KeysSynchronised ==
    VarsSucceeded
        => \A d \in DOMAIN child.variables :
              \A n \in 0 .. 7 :
                  child.variables[d].value = Some(<<"UInt", n>>)
                      => /\ BoundTo(child, KeyVariable(d), ExprConst(n))
                         /\ DimValue(child, DimOfKey(KeyVariable(d))) = ExprConst(n)

\* C33 witness: a variable declared with the value 3 was given the value 7
\* by update_variable, and its key is bound to 7.
C33_Witness ==
    /\ VariableUpdated
    /\ outcome.ok
    /\ prior.variables[Target(prior, Unwrap(applied).dim)].value = Some(<<"UInt", 3>>)
    /\ BoundTo(child, KeyVariable("number of channels"), ExprConst(7))

\* C34: every variable that has a value has the type of that value.
C34_VariableTyping ==
    \A d \in DOMAIN child.variables :
        IsSome(child.variables[d].value)
            => child.variables[d].ty = Unwrap(child.variables[d].value)[1]

\* The nodes of g whose node number is n.
Numbered(g, n) == {b \in DOMAIN g.nodes : b[1] = n}

\* The last attach was the call of a sub-model with the positional
\* argument (#n:0).
PositionalAttach(n) == SubModelAttach /\ Unwrap(tried).pass.args = NodeArgs(n)

\* C35: on the repeat 0 of a pass the positional argument (#n:a) of a
\* sub-model call is recorded as the input edge (greatest id with node
\* number n, Some(a)), and the attach fails with NoSuchNode if no node has
\* that number; on a later repeat it is ignored without error and the node
\* has the default edge to the previous node only.
C35_PositionalArgs ==
    \A n \in {0, 1, 5} :
        PositionalAttach(n)
            => IF Unwrap(tried).id[3] = 0
               THEN IF Numbered(prior, n) = {}
                    THEN outcome.err = "NoSuchNode" /\ child = prior
                    ELSE /\ outcome.err # "NoSuchNode"
                         /\ outcome.ok
                               => /\ Len(NewNode.inputs) = 1
                                  /\ NewNode.inputs[1].arg = Some(0)
                                  /\ NewNode.inputs[1].id \in Numbered(prior, n)
                                  /\ \A b \in Numbered(prior, n) :
                                        b = NewNode.inputs[1].id \/ IdLess(b, NewNode.inputs[1].id)
               ELSE /\ outcome.err # "NoSuchNode"
                    /\ outcome.ok
                          => NewNode.inputs = <<[id |-> LastId(prior.nodes), arg |-> None]>>

\* C35 witness: `(#1:0)` was recorded as an edge to the second pass of
\* line 1, the greatest of the two ids numbered 1.
C35_Witness ==
    /\ PositionalAttach(1)
    /\ outcome.ok
    /\ Cardinality(Numbered(prior, 1)) = 2
    /\ NewNode.inputs = <<[id |-> <<1, 1, 0>>, arg |-> Some(0)]>>

\* The input edges of the node id of g.
Edges(g, id) == {g.nodes[id].inputs[i] : i \in 1 .. Len(g.nodes[id].inputs)}

\* C36: the input node has no input edge and every other node has at least
\* one; every edge refers to a node of the graph with a smaller id; and a
\* node attached without positional arguments has the one edge (id of the
\* previous node, None).
C36_InputEdges ==
    /\ \A id \in DOMAIN child.nodes :
          /\ id = NewInput <=> Edges(child, id) = {}
          /\ \A e \in Edges(child, id) : e.id \in DOMAIN child.nodes /\ IdLess(e.id, id)
    /\ (/\ outcome.at = "attach" /\ outcome.ok /\ prior.nodes # EmptyMap
        /\ \A i \in 1 .. Len(Unwrap(tried).pass.args) : Unwrap(tried).pass.args[i][1] # "NodeArg")
          => NewNode.inputs = <<[id |-> LastId(prior.nodes), arg |-> None]>>

\* C36 witness: a graph of three nodes whose last node has an edge to the
\* input node, not to the node before it.
C36_Witness ==
    /\ outcome.at = "attach"
    /\ outcome.ok
    /\ Cardinality(DOMAIN child.nodes) = 3
    /\ NewNode.inputs = <<[id |-> NewInput, arg |-> Some(0)]>>

\* validate_args_rank was called on the bundle Left against the bundle
\* Right.
RankValidated == outcome.at = "validate_args_rank"

Left == Unwrap(applied).dim

Right == Unwrap(applied).ground

\* Both bundles are Fixed and have the same ArgIndexes.
Paired == Left[1] = "Fixed" /\ Right[1] = "Fixed" /\ DOMAIN Left[2] = DOMAIN Right[2]

Appended == outcome.at = "append"

\* C38: append of two Fixed bundles a and b is a Fixed bundle with the
\* ArgIndexes 0 .. |a| + |b| - 1 that holds the shapes of a in order and
\* then the shapes of b in order; if a or b is Dynamic the result is
\* Dynamic.
C38_Append ==
    Appended
        => LET val == Unwrap(applied).val
           IN  IF Left[1] = "Fixed" /\ Right[1] = "Fixed"
               THEN LET na == Cardinality(DOMAIN Left[2])
                        bs == SortedNats(DOMAIN Right[2])
                    IN  /\ val[1] = "Fixed"
                        /\ DOMAIN val[2] = 0 .. (na + Len(bs) - 1)
                        /\ \A k \in 0 .. na - 1 : val[2][k] = Left[2][k]
                        /\ \A i \in 1 .. Len(bs) : val[2][na + i - 1] = Right[2][bs[i]]
               ELSE val = ShapesDynamic

\* C38 witness: two shapes were appended to a bundle of two, the second
\* bundle holding them under the ArgIndexes 0 and 2.
C38_Witness ==
    /\ Appended
    /\ Left[1] = "Fixed"
    /\ Right[1] = "Fixed"
    /\ DOMAIN Left[2] = {0, 1}
    /\ DOMAIN Right[2] = {0, 2}
    /\ Left[2][1] # Right[2][0]
    /\ DOMAIN Unwrap(applied).val[2] = 0 .. 3

\* The frames of the call stack that load_graph_local entered.
LoadFrames == {i \in DOMAIN stack : stack[i].kind = "load"}

\* A step that enters load_graph_local for the prefab n.
Elaborates(n) ==
    /\ Len(stack') = Len(stack) + 1
    /\ stack'[Len(stack')].kind = "load"
    /\ stack'[Len(stack')].name = n

\* Each step leaves the prefabs as they are or takes one of them away, and
\* the file that is compiled is the prefab that the step took away.
PrefabsConsumed ==
    /\ DOMAIN prefabs' \subseteq DOMAIN prefabs
    /\ \A n \in DOMAIN prefabs' : prefabs'[n] = prefabs[n]
    /\ \A n \in Names :
          Elaborates(n)
              => /\ n \in DOMAIN prefabs
                 /\ DOMAIN prefabs' = (DOMAIN prefabs) \ {n}
                 /\ stack'[Len(stack')] = Frame("load", n, prefabs[n])
    /\ DOMAIN prefabs' # DOMAIN prefabs => \E n \in Names : Elaborates(n)

\* The nested loads of the running call and the prefabs still pending are
\* together no more than the prefabs that were pending when the call began.
DepthBounded ==
    status = "running"
        => Cardinality(LoadFrames) + Cardinality(DOMAIN prefabs)
              <= Cardinality(DOMAIN call.prefabs0)

\* The call returned a graph or an error.
Ended ==
    /\ status = "done"
    /\ IF result.ok THEN IsSome(result.graph) ELSE result.err # ""

\* C39: a prefab is taken out of prefabs when it is compiled and never put
\* back, so it is elaborated at most once; the nested loads of a call are
\* bounded by the prefabs that were pending when it began; and every call
\* that runs ends in a graph or an error.
C39_Termination ==
    /\ [][PrefabsConsumed]_vars
    /\ []DepthBounded
    /\ (status = "running") ~> Ended

\* C39 witness: find_graph elaborated the three prefabs in nested loads and
\* returned the graph.
C39_Witness ==
    /\ Ended
    /\ result.ok
    /\ call.op = "find_graph"
    /\ DOMAIN call.prefabs0 = Names
    /\ call.prefabs0[call.name].uses # <<>>
    /\ prefabs = EmptyMap
====
